---- MODULE Spec2Model ----
(***************************************************************************)
(* Vendor runtime resolution of the Electron main process: the table of    *)
(* bundled dependencies, the platform-arch key, the enhanced PATH, the     *)
(* executable path resolver and the '--version' liveness check.            *)
(*                                                                         *)
(* Strings the code only compares or concatenates are TLA+ strings.  A     *)
(* file-system path is kept as its sequence of segments until it is        *)
(* rendered by join; a PATH value and a file content are sequences of      *)
(* tokens (a directory, a separator, a blank; a shebang, an echo, binary   *)
(* data).  A JavaScript "string | undefined" is a sequence of length at    *)
(* most one: << >> is undefined, <<s>> is the string s.                    *)
(***************************************************************************)
EXTENDS Integers, Sequences, FiniteSets, TLC

VARIABLES
    platform,     \* process.platform
    arch,         \* process.arch
    isPackaged,   \* app.isPackaged
    envPATH,      \* process.env.PATH: << >> when unset, else <<tokens>>
    fs,           \* the files at the bundle paths of this host
    gep,          \* the getExecutablePath call in progress or last finished
    bep,          \* the last buildEnhancedPath call
    ve,           \* the validateExecutable call and its child process
    sdk,          \* the getSDKExecutableOptions call
    report,       \* the getValidationReport call
    envRest,      \* process.env without PATH: name -> << >> when unset, else <<tokens>>
    packaging,    \* packaging.js: the last call of its getSDKExecutableOptions
    memory,       \* memory-manager.ts: cachedConfig and the load in flight
    main,         \* the main process: cleanupComplete and what cleanup has done
    envFile       \* env-file.ts: the .env file and the last save and load

vars == <<platform, arch, isPackaged, envPATH, fs, gep, bep, ve, sdk, report,
          envRest, packaging, memory, main, envFile>>

----------------------------------------------------------------------------
(* Bounds of the model. *)

\* Longest inherited PATH, in tokens.
MaxPathLen == 3

\* Clock ticks from the spawn to the timeout of the liveness check.
TicksToTimeout == 3

\* Clock ticks the model follows after the timeout.
MaxTicksAfterTimeout == 1

\* The quit events, signals and shortcut presses handled in one run of the
\* main process.
MaxQuitEvents == 3

\* The longest value written to the .env file, in characters.
MaxValueLen == 3

----------------------------------------------------------------------------
(* Values. *)

None == << >>
Some(x) == <<x>>

Platforms == {"darwin", "linux", "win32", "freebsd"}
Archs == {"arm64", "x64"}

\* An architecture the dependency table has no key for.
OtherArchs == {"ia32"}

\* The names callers pass: the declared ones and one that is not declared here.
ExecutableNames == {"uv", "node", "bun"}

\* stats.size < 1000
StubSizeThreshold == 1000

\* A 5 MB binary.
GenuineBinarySize == 5 * 1024 * 1024

----------------------------------------------------------------------------
(* The dependency table and the platform-arch key. *)

PACKAGED_DEPENDENCIES ==
    << [name |-> "uv", executable |-> "uv", paths |->
          ("darwin-arm64" :> <<"vendor", "uv-darwin-arm64", "uv-aarch64-apple-darwin", "uv">>) @@
          ("darwin-x64" :> <<"vendor", "uv-darwin-x64", "uv-x86_64-apple-darwin", "uv">>) @@
          ("linux-x64" :> <<"vendor", "uv-linux-x64", "uv-x86_64-unknown-linux-gnu", "uv">>) @@
          ("win32-x64" :> <<"vendor", "uv-win32-x64", "uv-x86_64-pc-windows-msvc", "uv.exe">>)],
       [name |-> "node", executable |-> "node", paths |->
          ("darwin-arm64" :> <<"vendor", "node-darwin-arm64", "node-v20.18.0-darwin-arm64", "bin", "node">>) @@
          ("darwin-x64" :> <<"vendor", "node-darwin-x64", "node-v20.18.0-darwin-x64", "bin", "node">>) @@
          ("linux-x64" :> <<"vendor", "node-linux-x64", "node-v20.18.0-linux-x64", "bin", "node">>) @@
          ("win32-x64" :> <<"vendor", "node-win32-x64", "node-v20.18.0-win-x64", "node.exe">>)] >>

DependencyNames == {PACKAGED_DEPENDENCIES[i].name : i \in DOMAIN PACKAGED_DEPENDENCIES}

\* Variant: the raw key on every platform.
getSystemArchKeyRaw == platform \o "-" \o arch

getSystemArchKey ==
    IF platform = "darwin"
    THEN (IF arch = "arm64" THEN "darwin-arm64" ELSE "darwin-x64")
    ELSE IF platform = "linux" THEN "linux-x64"
    ELSE IF platform = "win32" THEN "win32-x64"
    ELSE platform \o "-" \o arch

\* PACKAGED_DEPENDENCIES.find(d => d.name === executable)
findDependency(executable) ==
    LET hits == {i \in DOMAIN PACKAGED_DEPENDENCIES : PACKAGED_DEPENDENCIES[i].name = executable}
    IN IF hits = {} THEN None
       ELSE Some(PACKAGED_DEPENDENCIES[CHOOSE i \in hits : \A j \in hits : i <= j])

\* dep.paths[archKey]
relativePathOf(dep, archKey) ==
    IF archKey \in DOMAIN dep.paths THEN Some(dep.paths[archKey]) ELSE None

----------------------------------------------------------------------------
(* Paths. *)

\* process.resourcesPath
resourcesPath == IF platform = "win32" THEN "C:\\App\\resources" ELSE "/App/resources"

\* path.sep, the separator join puts between segments
dirSeparator == IF platform = "win32" THEN "\\" ELSE "/"

\* Variant: the path is taken inside the archive, not the unpacked directory.
unpackedSegmentsInArchive(relativePath) == <<resourcesPath, "app.asar">> \o relativePath

\* The segments of join(resourcesPath, "app.asar.unpacked", relativePath).
unpackedSegments(relativePath) == <<resourcesPath, "app.asar.unpacked">> \o relativePath

RECURSIVE join(_)
join(segments) ==
    IF Len(segments) = 0 THEN "."
    ELSE IF Len(segments) = 1 THEN segments[1]
    ELSE join(SubSeq(segments, 1, Len(segments) - 1)) \o dirSeparator \o segments[Len(segments)]

\* dirname of the path with these segments
dirname(segments) == join(SubSeq(segments, 1, Len(segments) - 1))

\* The bundle paths the code can look at on this host.
BundlePaths ==
    {join(unpackedSegments(PACKAGED_DEPENDENCIES[i].paths[getSystemArchKey])) :
        i \in {j \in DOMAIN PACKAGED_DEPENDENCIES :
                 getSystemArchKey \in DOMAIN PACKAGED_DEPENDENCIES[j].paths}}

----------------------------------------------------------------------------
(* The file system at the bundle paths. *)

FileContents ==
    { <<"#!/bin/bash", "echo">>,   \* the placeholder stub
      <<"#!/bin/bash", "ELF">>,    \* a shebang, no echo
      <<"ELF", "echo">>,           \* an echo, no shebang
      <<"ELF">> }                  \* neither

Absent == [exists |-> FALSE, size |-> 0, content |-> << >>, readable |-> FALSE]

GenuineBinary ==
    [exists |-> TRUE, size |-> GenuineBinarySize, content |-> <<"ELF">>, readable |-> TRUE]

Files ==
    [exists : {TRUE}, size : {StubSizeThreshold - 1, StubSizeThreshold},
     content : FileContents, readable : BOOLEAN] \cup {GenuineBinary}

\* fs.existsSync: false on every error
existsSync(path) == path \in DOMAIN fs /\ fs[path].exists

\* fs/promises stat: the size, or None when it rejects (the file is gone)
stat(path) ==
    IF path \in DOMAIN fs /\ fs[path].exists THEN Some(fs[path].size) ELSE None

\* fs/promises readFile: the content, or None when it rejects
readFile(path) ==
    IF path \in DOMAIN fs /\ fs[path].exists /\ fs[path].readable
    THEN Some(fs[path].content) ELSE None

\* content.startsWith(token)
startsWith(content, token) == Len(content) > 0 /\ content[1] = token

\* content.includes(token)
includes(content, token) == \E i \in DOMAIN content : content[i] = token

----------------------------------------------------------------------------
(* getExecutablePath: an async function; it yields at 'await stat' and at    *)
(* 'await readFile', and the file system may change while it waits.         *)

Pending == [state |-> "pending", value |-> None]
Fulfilled(v) == [state |-> "fulfilled", value |-> v]
Rejected == [state |-> "rejected", value |-> None]

\* The call: where it is, its argument and locals (found: what existsSync
\* returned; stats, content: what the awaits gave; failed: the await that
\* rejected), the promise it returned, what it logged, the fs calls it made.
GepIdle ==
    [pc |-> "idle", executable |-> "", execPath |-> "", found |-> None,
     stats |-> None, content |-> None, failed |-> None,
     promise |-> Pending, log |-> << >>, fsCalls |-> << >>]

\* return v, having logged these levels
GepReturn(call, v, levels) ==
    [call EXCEPT !.pc = "done", !.promise = Fulfilled(v), !.log = @ \o levels]

\* Variant: the development branch answers with the bundle location.
developmentPathFromBundle(executable) == Some(join(unpackedSegments(<<executable>>)))

\* the development branch: return executable
developmentPath(executable) == Some(executable)

\* Variant: a name that is not declared is handed back as a system command.
unknownExecutableAsCommand(call) == GepReturn(call, Some(call.executable), << >>)

\* if (!dep): log.error, return undefined
unknownExecutable(call) == GepReturn(call, None, <<"error">>)

\* Variant: a missing path falls back to the system PATH.
noPathConfiguredFallback(call) == GepReturn(call, Some(call.executable), <<"warn">>)

\* if (!relativePath): log.error, return undefined
noPathConfigured(call) == GepReturn(call, None, <<"error">>)

\* Variant: every dependency falls back to the system PATH.
fileNotFoundAlwaysFallback(call) ==
    GepReturn(call, Some(call.executable), <<"warn", "info">>)

\* Variant: a file the path builder has listed before is taken as still there.
fileNotFoundRemembered(call) ==
    IF bep.called /\ \E i \in DOMAIN bep.result : bep.result[i] \o dirSeparator \o call.executable = call.execPath
    THEN GepReturn(call, Some(call.execPath), <<"debug">>)
    ELSE IF call.executable = "node"
    THEN GepReturn(call, Some(call.executable), <<"warn", "info">>)
    ELSE GepReturn(call, None, <<"warn">>)

\* the else branch of existsSync: log.warn; node falls back to the system PATH
fileNotFound(call) ==
    IF call.executable = "node"
    THEN GepReturn(call, Some(call.executable), <<"warn", "info">>)
    ELSE GepReturn(call, None, <<"warn">>)

\* Variant: stats.size <= 1000
needsContentCheckInclusive(size) == size <= StubSizeThreshold

\* stats.size < 1000
needsContentCheck(size) == size < StubSizeThreshold

\* Variant: the signature looked for is that of a /bin/sh script using printf.
isPlaceholderScriptSh(content) ==
    startsWith(content, "#!/bin/sh") \/ includes(content, "printf")

\* Variant: both signatures are required.
isPlaceholderScriptBoth(content) ==
    startsWith(content, "#!/bin/bash") /\ includes(content, "echo")

\* content.startsWith("#!/bin/bash") || content.includes("echo")
isPlaceholderScript(content) ==
    startsWith(content, "#!/bin/bash") \/ includes(content, "echo")

\* the script branch: log.warn, return executable
placeholderFound(call) == GepReturn(call, Some(call.executable), <<"warn">>)

\* Variant: no catch, the rejection of stat or readFile reaches the caller.
validationRethrown(call) == [call EXCEPT !.pc = "done", !.promise = Rejected]

\* catch (e): log.warn, return executable
validationFailed(call) == GepReturn(call, Some(call.executable), <<"warn">>)

\* Variant: the bundle path is returned only once the liveness check of the
\* command has succeeded.
foundExecutableIfLive(call) ==
    IF ve.executable = call.executable /\ ve.promise = Fulfilled(Some(TRUE))
    THEN GepReturn(call, Some(call.execPath), <<"debug">>)
    ELSE GepReturn(call, Some(call.executable), <<"warn">>)

\* log.debug, return execPath
foundExecutable(call) == GepReturn(call, Some(call.execPath), <<"debug">>)

\* From the call to the first await or to the return.
getExecutablePathEntry(executable) ==
    LET call == [GepIdle EXCEPT !.executable = executable]
        archKey == getSystemArchKey
    IN IF ~isPackaged THEN GepReturn(call, developmentPath(executable), << >>)
       ELSE LET dep == findDependency(executable)
            IN IF dep = None THEN unknownExecutable(call)
               ELSE LET relativePath == relativePathOf(dep[1], archKey)
                    IN IF relativePath = None THEN noPathConfigured(call)
                       ELSE LET execPath == join(unpackedSegments(relativePath[1]))
                                looked == [call EXCEPT !.execPath = execPath,
                                                       !.fsCalls = Append(@, "existsSync")]
                            IN IF existsSync(execPath)
                               THEN [looked EXCEPT !.found = Some(TRUE), !.pc = "stat",
                                                   !.fsCalls = Append(@, "stat")]
                               ELSE fileNotFound([looked EXCEPT !.found = Some(FALSE)])

\* 'await stat(execPath)' settles.
getExecutablePathAfterStat(call) ==
    LET stats == stat(call.execPath)
    IN IF stats = None THEN validationFailed([call EXCEPT !.failed = Some("stat")])
       ELSE LET seen == [call EXCEPT !.stats = stats]
            IN IF needsContentCheck(stats[1])
               THEN [seen EXCEPT !.pc = "read", !.fsCalls = Append(@, "readFile")]
               ELSE foundExecutable(seen)

\* 'await readFile(execPath, "utf8")' settles.
getExecutablePathAfterRead(call) ==
    LET content == readFile(call.execPath)
    IN IF content = None THEN validationFailed([call EXCEPT !.failed = Some("readFile")])
       ELSE LET seen == [call EXCEPT !.content = content]
            IN IF isPlaceholderScript(content[1]) THEN placeholderFound(seen)
               ELSE foundExecutable(seen)

GetExecutablePathCall(executable) ==
    /\ gep.pc \in {"idle", "done"}
    /\ gep' = getExecutablePathEntry(executable)
    /\ UNCHANGED <<platform, arch, isPackaged, envPATH, fs, bep, ve, sdk, report,
                 envRest, packaging, memory, main, envFile>>

GetExecutablePathStat ==
    /\ gep.pc = "stat"
    /\ gep' = getExecutablePathAfterStat(gep)
    /\ UNCHANGED <<platform, arch, isPackaged, envPATH, fs, bep, ve, sdk, report,
                 envRest, packaging, memory, main, envFile>>

GetExecutablePathRead ==
    /\ gep.pc = "read"
    /\ gep' = getExecutablePathAfterRead(gep)
    /\ UNCHANGED <<platform, arch, isPackaged, envPATH, fs, bep, ve, sdk, report,
                 envRest, packaging, memory, main, envFile>>

\* Something outside the program installs, replaces or removes a bundle file.
FsWrite(path, file) ==
    /\ path \in DOMAIN fs
    /\ fs[path] # file
    /\ fs' = [fs EXCEPT ![path] = file]
    /\ UNCHANGED <<platform, arch, isPackaged, envPATH, gep, bep, ve, sdk, report,
                 envRest, packaging, memory, main, envFile>>

FsRemove(path) ==
    /\ path \in DOMAIN fs
    /\ fs[path].exists
    /\ fs' = [fs EXCEPT ![path] = Absent]
    /\ UNCHANGED <<platform, arch, isPackaged, envPATH, gep, bep, ve, sdk, report,
                 envRest, packaging, memory, main, envFile>>

----------------------------------------------------------------------------
(* buildEnhancedPath: synchronous, one step.  A string is the sequence of    *)
(* its tokens; each token is a directory, a separator or a run of blanks.    *)

\* process.platform === "win32" ? ";" : ":"
pathSeparator == IF platform = "win32" THEN ";" ELSE ":"

Whitespace == {" "}

\* String.prototype.trim
RECURSIVE trim(_)
trim(str) ==
    IF Len(str) = 0 THEN str
    ELSE IF str[1] \in Whitespace THEN trim(Tail(str))
    ELSE IF str[Len(str)] \in Whitespace THEN trim(SubSeq(str, 1, Len(str) - 1))
    ELSE str

\* a string is truthy when it is not empty
truthy(str) == Len(str) > 0

\* process.env.PATH || ""
basePath == IF envPATH # None /\ truthy(envPATH[1]) THEN envPATH[1] ELSE << >>

\* Array.from(new Set(parts)): the first occurrence of each part, in order
RECURSIVE unique(_)
unique(parts) ==
    IF Len(parts) = 0 THEN << >>
    ELSE LET init == unique(SubSeq(parts, 1, Len(parts) - 1))
             last == parts[Len(parts)]
         IN IF \E i \in DOMAIN init : init[i] = last THEN init ELSE Append(init, last)

\* parts.join(separator)
RECURSIVE joinWith(_, _)
joinWith(parts, separator) ==
    IF Len(parts) = 0 THEN << >>
    ELSE IF Len(parts) = 1 THEN parts[1]
    ELSE parts[1] \o <<separator>> \o joinWith(Tail(parts), separator)

\* str.split(separator)
RECURSIVE split(_, _)
split(str, separator) ==
    IF \A i \in DOMAIN str : str[i] # separator THEN <<str>>
    ELSE LET k == CHOOSE i \in DOMAIN str :
                    str[i] = separator /\ \A j \in 1..(i - 1) : str[j] # separator
         IN <<SubSeq(str, 1, k - 1)>> \o split(SubSeq(str, k + 1, Len(str)), separator)

\* The sequences over S of at most n elements.
RECURSIVE SeqsUpTo(_, _)
SeqsUpTo(S, n) ==
    IF n = 0 THEN {<< >>}
    ELSE LET shorter == SeqsUpTo(S, n - 1)
         IN shorter \cup {Append(q, x) : q \in shorter, x \in S}

\* Variant: pathParts.push(binDir), after the inherited PATH.
addDependencyDirPush(acc, dep) ==
    LET relativePath == relativePathOf(dep, getSystemArchKey)
    IN IF relativePath = None THEN acc
       ELSE LET segments == unpackedSegments(relativePath[1])
                looked == [acc EXCEPT !.fsCalls = Append(@, "existsSync")]
            IN IF existsSync(join(segments))
               THEN [looked EXCEPT !.pathParts = Append(@, <<dirname(segments)>>),
                                   !.log = Append(@, "debug")]
               ELSE [looked EXCEPT !.log = Append(@, "warn")]

\* Variant: the directory is inserted just before the inherited PATH, so the
\* directories stay in declaration order.
addDependencyDirInOrder(acc, dep) ==
    LET relativePath == relativePathOf(dep, getSystemArchKey)
    IN IF relativePath = None THEN acc
       ELSE LET segments == unpackedSegments(relativePath[1])
                looked == [acc EXCEPT !.fsCalls = Append(@, "existsSync")]
                n == Len(acc.pathParts)
            IN IF existsSync(join(segments))
               THEN [looked EXCEPT !.pathParts = SubSeq(@, 1, n - 1) \o <<<<dirname(segments)>>>>
                                                    \o SubSeq(@, n, n),
                                   !.log = Append(@, "debug")]
               ELSE [looked EXCEPT !.log = Append(@, "warn")]

\* The body of the forEach for one dependency.
addDependencyDir(acc, dep) ==
    LET relativePath == relativePathOf(dep, getSystemArchKey)
    IN IF relativePath = None THEN acc
       ELSE LET segments == unpackedSegments(relativePath[1])
                unpackedPath == join(segments)
                binDir == dirname(segments)
                looked == [acc EXCEPT !.fsCalls = Append(@, "existsSync")]
            IN IF existsSync(unpackedPath)
               THEN [looked EXCEPT !.pathParts = <<<<binDir>>>> \o @, !.log = Append(@, "debug")]
               ELSE [looked EXCEPT !.log = Append(@, "warn")]

\* PACKAGED_DEPENDENCIES.forEach over the dependencies from index i on
RECURSIVE forEachDependency(_, _)
forEachDependency(acc, i) ==
    IF i > Len(PACKAGED_DEPENDENCIES) THEN acc
    ELSE forEachDependency(addDependencyDir(acc, PACKAGED_DEPENDENCIES[i]), i + 1)

\* Variant: the bundle directories are added in development mode too.
collectPathPartsAlways ==
    forEachDependency([pathParts |-> <<basePath>>, log |-> << >>, fsCalls |-> << >>], 1)

\* pathParts after 'if (app.isPackaged) { ... }'
collectPathParts ==
    LET start == [pathParts |-> <<basePath>>, log |-> << >>, fsCalls |-> << >>]
    IN IF isPackaged THEN forEachDependency(start, 1) ELSE start

buildEnhancedPath ==
    LET collected == collectPathParts
        uniquePaths == unique(SelectSeq(collected.pathParts, LAMBDA p : truthy(trim(p))))
    IN [called |-> TRUE, result |-> joinWith(uniquePaths, pathSeparator),
        log |-> collected.log, fsCalls |-> collected.fsCalls]

BepIdle == [called |-> FALSE, result |-> << >>, log |-> << >>, fsCalls |-> << >>]

BuildEnhancedPath ==
    /\ bep' = buildEnhancedPath
    /\ UNCHANGED <<platform, arch, isPackaged, envPATH, fs, gep, ve, sdk, report,
                 envRest, packaging, memory, main, envFile>>

----------------------------------------------------------------------------
(* validateExecutable: spawn(executable, ['--version']), three listeners     *)
(* that settle the promise, a 3 s timer, three listeners that clear it.      *)
(* Each action is one callback of the event loop, run to completion.         *)

\* setTimeout(..., 3000)
TimeoutMs == 3000

\* The clock advances in steps of TickMs.
TickMs == TimeoutMs \div TicksToTimeout

\* How a spawned process ends: an exit status, or a signal (code null).
ExitStatuses ==
    { [code |-> Some(0), signal |-> None],
      [code |-> Some(1), signal |-> None],
      [code |-> Some(127), signal |-> None],
      [code |-> None, signal |-> Some("SIGTERM")] }

\* What 'close' reports after a spawn error: a negative errno, no signal.
SpawnErrorStatus == [code |-> Some(-2), signal |-> None]

VeIdle ==
    [pc |-> "idle", executable |-> "", isResolved |-> FALSE, promise |-> Pending,
     timer |-> "none", clock |-> 0, settledAt |-> None, kills |-> 0,
     child |-> [state |-> "none", code |-> None, signal |-> None,
                closed |-> FALSE, killed |-> FALSE],
     events |-> << >>]

\* process.kill('SIGKILL') inside try/catch: a running child is sent the signal
kill(v) ==
    [v EXCEPT !.kills = @ + 1,
              !.child.killed = (@ \/ v.child.state = "running")]

\* const cleanup = () => { if (!isResolved) { isResolved = true; kill } }
cleanup(v) ==
    IF ~v.isResolved THEN kill([v EXCEPT !.isResolved = TRUE]) ELSE v

\* Variant: no isResolved flag; every handled event kills and resolves.
resolveWithEveryEvent(v, value) ==
    LET killed == kill(v)
    IN [killed EXCEPT !.promise = IF @.state = "pending" THEN Fulfilled(Some(value)) ELSE @,
                      !.settledAt = IF @ = None THEN Some(v.clock) ELSE @]

\* const resolveWith = (value) => { if (!isResolved) { isResolved = true; cleanup(); resolve(value) } }
resolveWith(v, value) ==
    IF ~v.isResolved
    THEN LET marked == [v EXCEPT !.isResolved = TRUE]
             cleaned == cleanup(marked)
         IN [cleaned EXCEPT !.promise = IF @.state = "pending" THEN Fulfilled(Some(value)) ELSE @,
                            !.settledAt = IF @ = None THEN Some(v.clock) ELSE @]
    ELSE v

\* Variant: the timer is left armed.
clearTimeoutNever(v) == v

\* clearTimeout(timeout)
clearTimeout(v) == [v EXCEPT !.timer = IF @ = "armed" THEN "cleared" ELSE @]

\* Variant: any numbered exit status counts as success.
exitedCleanlyAnyCode(code) == code # None

\* code === 0
exitedCleanly(code) == code = Some(0)

\* The executor of the promise: spawn, attach the listeners, arm the timer.
spawnValidate(executable) ==
    [VeIdle EXCEPT !.pc = "waiting", !.executable = executable,
                   !.timer = "armed", !.child.state = "running"]

ValidateExecutableCall(executable) ==
    /\ ve.pc = "idle" \/ ve.promise.state # "pending"
    /\ ve' = spawnValidate(executable)
    /\ UNCHANGED <<platform, arch, isPackaged, envPATH, fs, gep, bep, sdk, report,
                 envRest, packaging, memory, main, envFile>>

\* The child ends; 'exit' is emitted: resolveWith(code === 0), clearTimeout.
ChildExit(status) ==
    /\ ve.child.state = "running"
    /\ ve.child.killed => status = [code |-> None, signal |-> Some("SIGKILL")]
    /\ LET ended == [ve EXCEPT !.child.state = "exited", !.child.code = status.code,
                               !.child.signal = status.signal,
                               !.events = Append(@, "exit")]
       IN ve' = clearTimeout(resolveWith(ended, exitedCleanly(status.code)))
    /\ UNCHANGED <<platform, arch, isPackaged, envPATH, fs, gep, bep, sdk, report,
                 envRest, packaging, memory, main, envFile>>

\* Variant: no 'error' listener settles the promise.
onErrorUnhandled(v) == clearTimeout(v)

\* process.on('error', () => resolveWith(false)); then clearTimeout
onError(v) == clearTimeout(resolveWith(v, FALSE))

\* The spawn failed; 'error' is emitted: resolveWith(false), clearTimeout.
ChildError ==
    /\ ve.child.state = "running"
    /\ ve.events = << >>
    /\ ve.clock = 0
    /\ LET failed == [ve EXCEPT !.child.state = "failed",
                                !.child.code = SpawnErrorStatus.code,
                                !.events = Append(@, "error")]
       IN ve' = onError(failed)
    /\ UNCHANGED <<platform, arch, isPackaged, envPATH, fs, gep, bep, sdk, report,
                 envRest, packaging, memory, main, envFile>>

\* 'close' is emitted after 'exit' or 'error': resolveWith(code === 0), clearTimeout.
ChildClose ==
    /\ ve.child.state \in {"exited", "failed"}
    /\ ~ve.child.closed
    /\ LET closed == [ve EXCEPT !.child.closed = TRUE, !.events = Append(@, "close")]
       IN ve' = clearTimeout(resolveWith(closed, exitedCleanly(ve.child.code)))
    /\ UNCHANGED <<platform, arch, isPackaged, envPATH, fs, gep, bep, sdk, report,
                 envRest, packaging, memory, main, envFile>>

\* The timer fires: resolveWith(false).
Timeout ==
    /\ ve.timer = "armed"
    /\ ve.clock >= TimeoutMs
    /\ ve' = resolveWith([ve EXCEPT !.timer = "fired", !.events = Append(@, "timeout")], FALSE)
    /\ UNCHANGED <<platform, arch, isPackaged, envPATH, fs, gep, bep, sdk, report,
                 envRest, packaging, memory, main, envFile>>

\* Time passes; a timer that is due fires before time passes further.
Tick ==
    /\ ve.pc = "waiting"
    /\ ve.clock < TimeoutMs + MaxTicksAfterTimeout * TickMs
    /\ ~(ve.timer = "armed" /\ ve.clock >= TimeoutMs)
    /\ ve' = [ve EXCEPT !.clock = @ + TickMs]
    /\ UNCHANGED <<platform, arch, isPackaged, envPATH, fs, gep, bep, sdk, report,
                 envRest, packaging, memory, main, envFile>>

----------------------------------------------------------------------------
(* The callers of the resolver. *)

\* The names of the environment variables followed here.
EnvNames == {"PATH", "HOME", "UV_PYTHON_PREFERENCE", "BUN_INSTALL"}

\* process.env
processEnv == [name \in EnvNames |-> IF name = "PATH" THEN envPATH ELSE envRest[name]]

\* An environment with HOME set and no hint for uv or bun.
EnvRestDefault ==
    [name \in EnvNames \ {"PATH"} |-> IF name = "HOME" THEN Some(<<"/home/user">>) ELSE None]

\* The environments a process can inherit.
InheritedEnvs ==
    {[name \in EnvNames \ {"PATH"} |->
        CASE name = "HOME" -> home
          [] name = "UV_PYTHON_PREFERENCE" -> preference
          [] OTHER -> None] :
        home \in {None, Some(<<"/home/user">>)},
        preference \in {None, Some(<<"only-managed">>), Some(<<"only-system">>)}}

\* Variant: the environment is built from PATH alone.
sdkEnvPathOnly(enhancedPath) ==
    [name \in EnvNames |-> IF name = "PATH" THEN Some(enhancedPath) ELSE None]

\* { ...process.env, PATH: enhancedPath }
sdkEnv(enhancedPath) ==
    [name \in EnvNames |-> IF name = "PATH" THEN Some(enhancedPath) ELSE processEnv[name]]

\* getSDKExecutableOptions: where the call is, what 'await
\* getExecutablePath("node")' gave, the options built so far, the promise.
SdkIdle ==
    [pc |-> "idle", nodePath |-> None, options |-> [executable |-> None, env |-> None],
     promise |-> Pending, log |-> << >>]

\* Variant: the override is set whatever the resolver answered.
sdkExecutableAlways(nodePath) == Some("node")

\* if (nodePath) options.executable = "node"
sdkExecutable(nodePath) ==
    IF nodePath # None /\ nodePath[1] # "" THEN Some("node") ELSE None

\* The call, up to 'await getExecutablePath("node")'.
GetSDKExecutableOptionsCall ==
    /\ sdk.pc = "idle"
    /\ gep.pc \in {"idle", "done"}
    /\ gep' = getExecutablePathEntry("node")
    /\ sdk' = [SdkIdle EXCEPT !.pc = "awaitNode"]
    /\ UNCHANGED <<platform, arch, isPackaged, envPATH, fs, bep, ve, report,
                 envRest, packaging, memory, main, envFile>>

\* From the answer for node to 'await getExecutablePath("uv")': the override,
\* buildEnhancedPath, env = {...process.env, PATH: enhancedPath}.
GetSDKExecutableOptionsAfterNode ==
    /\ sdk.pc = "awaitNode"
    /\ gep.pc = "done"
    /\ IF gep.promise.state = "rejected"
       THEN /\ sdk' = [sdk EXCEPT !.pc = "done", !.promise = Rejected]
            /\ UNCHANGED <<gep, bep>>
       ELSE LET nodePath == gep.promise.value
                enhanced == buildEnhancedPath
            IN /\ bep' = enhanced
               /\ gep' = getExecutablePathEntry("uv")
               /\ sdk' = [sdk EXCEPT
                            !.pc = "awaitUv",
                            !.nodePath = nodePath,
                            !.options.executable = sdkExecutable(nodePath),
                            !.options.env = Some(sdkEnv(enhanced.result)),
                            !.log = Append(@, IF sdkExecutable(nodePath) # None
                                              THEN "info" ELSE "warn")]
    /\ UNCHANGED <<platform, arch, isPackaged, envPATH, fs, ve, report,
                 envRest, packaging, memory, main, envFile>>

\* From the answer for uv to the return.
GetSDKExecutableOptionsAfterUv ==
    /\ sdk.pc = "awaitUv"
    /\ gep.pc = "done"
    /\ IF gep.promise.state = "rejected"
       THEN sdk' = [sdk EXCEPT !.pc = "done", !.promise = Rejected]
       ELSE LET uvPath == gep.promise.value
                env == [sdk.options.env[1] EXCEPT
                          !.UV_PYTHON_PREFERENCE =
                              IF uvPath # None /\ uvPath[1] # "" THEN Some(<<"only-system">>) ELSE @]
                options == [sdk.options EXCEPT !.env = Some(env)]
            IN sdk' = [sdk EXCEPT !.pc = "done", !.options = options,
                                  !.promise = Fulfilled(Some(options))]
    /\ UNCHANGED <<platform, arch, isPackaged, envPATH, fs, gep, bep, ve, report,
                 envRest, packaging, memory, main, envFile>>

\* getValidationReport: the index of the dependency in hand, what 'await
\* getExecutablePath(dep.name)' gave for it, the entries written so far, the
\* commands handed to validateExecutable with their answers, the promise.
ReportIdle ==
    [pc |-> "idle", index |-> 0, execPath |-> None, dependencies |-> << >>,
     probes |-> << >>, promise |-> Pending, log |-> << >>]

\* Variant: the resolved path is what is probed, when there is one.
probeCommandResolved(dep, execPath) == IF execPath # None THEN execPath[1] ELSE dep.name

\* validateExecutable(dep.name)
probeCommand(dep, execPath) == dep.name

\* The call, up to the first 'await getExecutablePath(dep.name)'.
GetValidationReportCall ==
    /\ report.pc = "idle"
    /\ gep.pc \in {"idle", "done"}
    /\ gep' = getExecutablePathEntry(PACKAGED_DEPENDENCIES[1].name)
    /\ report' = [ReportIdle EXCEPT !.pc = "awaitPath", !.index = 1]
    /\ UNCHANGED <<platform, arch, isPackaged, envPATH, fs, bep, ve, sdk,
                 envRest, packaging, memory, main, envFile>>

\* From the path of the dependency in hand to 'await validateExecutable'.
GetValidationReportAfterPath ==
    /\ report.pc = "awaitPath"
    /\ gep.pc = "done"
    /\ IF gep.promise.state = "rejected"
       THEN /\ report' = [report EXCEPT !.pc = "done", !.promise = Rejected]
            /\ UNCHANGED ve
       ELSE LET dep == PACKAGED_DEPENDENCIES[report.index]
                execPath == gep.promise.value
            IN /\ ve' = spawnValidate(probeCommand(dep, execPath))
               /\ report' = [report EXCEPT !.pc = "awaitProbe", !.execPath = execPath]
    /\ UNCHANGED <<platform, arch, isPackaged, envPATH, fs, gep, bep, sdk,
                 envRest, packaging, memory, main, envFile>>

\* From the answer of the probe to the next dependency, or to the return.
GetValidationReportAfterProbe ==
    /\ report.pc = "awaitProbe"
    /\ ve.promise.state = "fulfilled"
    /\ LET dep == PACKAGED_DEPENDENCIES[report.index]
           isAvailable == ve.promise.value[1]
           entry == [path |-> report.execPath, available |-> isAvailable]
           written == [report EXCEPT
                         !.dependencies = (dep.name :> entry) @@ @,
                         !.probes = Append(@, [command |-> ve.executable, passed |-> isAvailable]),
                         !.log = Append(@, IF report.execPath # None /\ isAvailable
                                           THEN "info" ELSE "warn")]
       IN IF report.index < Len(PACKAGED_DEPENDENCIES)
          THEN /\ gep' = getExecutablePathEntry(PACKAGED_DEPENDENCIES[report.index + 1].name)
               /\ report' = [written EXCEPT !.pc = "awaitPath", !.index = @ + 1]
          ELSE /\ report' = [written EXCEPT
                               !.pc = "done",
                               !.promise = Fulfilled(Some([platform |-> platform,
                                                           isPackaged |-> isPackaged,
                                                           dependencies |-> written.dependencies]))]
               /\ UNCHANGED gep
    /\ UNCHANGED <<platform, arch, isPackaged, envPATH, fs, ve, bep, sdk,
                 envRest, packaging, memory, main, envFile>>

----------------------------------------------------------------------------
(* packaging.js: the bun/uv/node variant. *)

(* Synchronous, keyed by the platform alone.                                 *)

packaging_PACKAGED_DEPENDENCIES ==
    << [name |-> "bun", executable |-> "bun", paths |->
          ("darwin" :> <<"vendor", "bun-darwin-aarch64", "bun">>) @@
          ("linux" :> <<"vendor", "bun-linux-x64", "bun">>) @@
          ("win32" :> <<"vendor", "bun-windows-x64", "bun.exe">>)],
       [name |-> "uv", executable |-> "uv", paths |->
          ("darwin" :> <<"vendor", "uv-darwin-aarch64", "uv">>) @@
          ("linux" :> <<"vendor", "uv-linux-x64", "uv">>) @@
          ("win32" :> <<"vendor", "uv-windows-x64", "uv.exe">>)],
       [name |-> "node", executable |-> "node", paths |->
          ("darwin" :> <<"vendor", "node-darwin-aarch64", "bin", "node">>) @@
          ("linux" :> <<"vendor", "node-linux-x64", "bin", "node">>) @@
          ("win32" :> <<"vendor", "node-windows-x64", "node.exe">>)] >>

\* PACKAGED_DEPENDENCIES.find(d => d.name === executable)
packaging_findDependency(executable) ==
    LET hits == {i \in DOMAIN packaging_PACKAGED_DEPENDENCIES :
                    packaging_PACKAGED_DEPENDENCIES[i].name = executable}
    IN IF hits = {} THEN None
       ELSE Some(packaging_PACKAGED_DEPENDENCIES[CHOOSE i \in hits : \A j \in hits : i <= j])

\* dep.paths[platform]
packaging_relativePathOf(dep) ==
    IF platform \in DOMAIN dep.paths THEN Some(dep.paths[platform]) ELSE None

\* The bundle paths this variant can look at on this host.
packaging_BundlePaths ==
    {join(unpackedSegments(packaging_PACKAGED_DEPENDENCIES[i].paths[platform])) :
        i \in {j \in DOMAIN packaging_PACKAGED_DEPENDENCIES :
                 platform \in DOMAIN packaging_PACKAGED_DEPENDENCIES[j].paths}}

\* the else branch of existsSync: node and bun fall back to the system PATH
packaging_fileNotFound(executable) ==
    IF executable = "node" \/ executable = "bun" THEN Some(executable) ELSE None

\* getExecutablePath of packaging.js: the path, the bare name, or None
packaging_getExecutablePath(executable) ==
    IF ~isPackaged THEN Some(executable)
    ELSE LET dep == packaging_findDependency(executable)
         IN IF dep = None THEN None
            ELSE LET relativePath == packaging_relativePathOf(dep[1])
                 IN IF relativePath = None THEN None
                    ELSE LET execPath == join(unpackedSegments(relativePath[1]))
                         IN IF ~existsSync(execPath) THEN packaging_fileNotFound(executable)
                            ELSE LET stats == stat(execPath)
                                 IN IF stats = None THEN Some(executable)
                                    ELSE IF stats[1] < StubSizeThreshold
                                    THEN LET content == readFile(execPath)
                                         IN IF content = None THEN Some(executable)
                                            ELSE IF isPlaceholderScript(content[1])
                                            THEN Some(executable)
                                            ELSE Some(execPath)
                                    ELSE Some(execPath)

\* The body of the forEach of buildEnhancedPath for one dependency.
packaging_addDependencyDir(pathParts, dep) ==
    LET relativePath == packaging_relativePathOf(dep)
    IN IF relativePath = None THEN pathParts
       ELSE LET segments == unpackedSegments(relativePath[1])
            IN IF existsSync(join(segments)) THEN <<<<dirname(segments)>>>> \o pathParts
               ELSE pathParts

RECURSIVE packaging_forEachDependency(_, _)
packaging_forEachDependency(pathParts, i) ==
    IF i > Len(packaging_PACKAGED_DEPENDENCIES) THEN pathParts
    ELSE packaging_forEachDependency(
             packaging_addDependencyDir(pathParts, packaging_PACKAGED_DEPENDENCIES[i]), i + 1)

\* buildEnhancedPath of packaging.js
packaging_buildEnhancedPath ==
    LET pathParts == IF isPackaged THEN packaging_forEachDependency(<<basePath>>, 1)
                     ELSE <<basePath>>
    IN joinWith(unique(SelectSeq(pathParts, LAMBDA p : truthy(trim(p)))), pathSeparator)

\* dirname(bunPath): of the bare name, or of the bundle path
packaging_dirnameOf(bunPath) ==
    IF bunPath = "bun" THEN "."
    ELSE dirname(unpackedSegments(packaging_findDependency("bun")[1].paths[platform]))

\* Variant: node is looked for first.
packaging_sdkExecutableNodeFirst(bunPath) ==
    IF packaging_getExecutablePath("node") # None THEN Some("node")
    ELSE IF bunPath # None THEN Some("bun")
    ELSE None

\* if (bunPath) "bun" else if (getExecutablePath("node")) "node"
packaging_sdkExecutable(bunPath) ==
    IF bunPath # None THEN Some("bun")
    ELSE IF packaging_getExecutablePath("node") # None THEN Some("node")
    ELSE None

\* getSDKExecutableOptions of packaging.js
packaging_getSDKExecutableOptions ==
    LET bunPath == packaging_getExecutablePath("bun")
        inherited == sdkEnv(packaging_buildEnhancedPath)
        env == [name \in EnvNames |->
                  IF name = "BUN_INSTALL" /\ bunPath # None
                  THEN Some(<<packaging_dirnameOf(bunPath[1])>>)
                  ELSE IF name = "UV_PYTHON_PREFERENCE" /\ packaging_getExecutablePath("uv") # None
                  THEN Some(<<"only-system">>)
                  ELSE inherited[name]]
    IN [executable |-> packaging_sdkExecutable(bunPath), env |-> Some(env)]

PackagingIdle == [called |-> FALSE, options |-> [executable |-> None, env |-> None]]

PackagingGetSDKExecutableOptions ==
    /\ packaging' = [called |-> TRUE, options |-> packaging_getSDKExecutableOptions]
    /\ UNCHANGED <<platform, arch, isPackaged, envPATH, fs, gep, bep, ve, sdk, report,
                   envRest, memory, main, envFile>>

\* The bundle of this variant is installed, replaced or removed.
PackagingFsWrite(path, file) ==
    /\ path \in packaging_BundlePaths
    /\ FsWrite(path, file)

----------------------------------------------------------------------------
(* memory-manager.ts *)

(* cachedConfig is the module's only state; a load awaits the dynamic import  *)
(* and then getMemoryConfig.  The fields loaded, op and before are history:   *)
(* the configuration of the last load that succeeded, the last operation      *)
(* finished and what getMemoryToolConfig returned just before it.             *)

\* Partial<MemoryConfig>, the two fields followed here
MemoryConfigs == [enabled : BOOLEAN, autoStore : BOOLEAN]

\* { enabled: false, autoStore: false }
DefaultMemoryConfig == [enabled |-> FALSE, autoStore |-> FALSE]

\* What getMemoryConfig can resolve to: { success, config? }
MemoryConfigResults ==
    [success : BOOLEAN, config : {None} \cup {Some(config) : config \in MemoryConfigs}]

MemoryInit ==
    [cachedConfig |-> None, pc |-> "idle", promise |-> Pending, got |-> None,
     loaded |-> None, op |-> "none", before |-> DefaultMemoryConfig]

\* getMemoryToolConfig(): the cache when there is one, else the default
getMemoryToolConfig ==
    IF memory.cachedConfig # None THEN memory.cachedConfig[1] ELSE DefaultMemoryConfig

GetMemoryToolConfig ==
    /\ memory' = [memory EXCEPT !.got = Some(getMemoryToolConfig), !.op = "get",
                                !.before = getMemoryToolConfig]
    /\ UNCHANGED <<platform, arch, isPackaged, envPATH, fs, gep, bep, ve, sdk, report,
                   envRest, packaging, main, envFile>>

\* loadMemoryToolConfig(), up to 'await import(...)'.
LoadMemoryToolConfigCall ==
    /\ memory.pc = "idle"
    /\ memory' = [memory EXCEPT !.pc = "import", !.promise = Pending]
    /\ UNCHANGED <<platform, arch, isPackaged, envPATH, fs, gep, bep, ve, sdk, report,
                   envRest, packaging, main, envFile>>

\* catch (error): console.error, the promise is fulfilled all the same
loadFailed(mem) ==
    [mem EXCEPT !.pc = "idle", !.promise = Fulfilled(None), !.op = "loadFailed",
                !.before = getMemoryToolConfig]

\* if (result.success && result.config) cachedConfig = result.config
loadedResult(mem, result) ==
    IF result.success /\ result.config # None
    THEN [mem EXCEPT !.cachedConfig = result.config, !.loaded = result.config]
    ELSE mem

\* The import settles: it fails, or the module is there and getMemoryConfig is
\* called and awaited.
LoadMemoryToolConfigImported(imported) ==
    /\ memory.pc = "import"
    /\ memory' = IF imported THEN [memory EXCEPT !.pc = "getMemoryConfig"] ELSE loadFailed(memory)
    /\ UNCHANGED <<platform, arch, isPackaged, envPATH, fs, gep, bep, ve, sdk, report,
                   envRest, packaging, main, envFile>>

\* getMemoryConfig rejects.
LoadMemoryToolConfigRejected ==
    /\ memory.pc = "getMemoryConfig"
    /\ memory' = loadFailed(memory)
    /\ UNCHANGED <<platform, arch, isPackaged, envPATH, fs, gep, bep, ve, sdk, report,
                   envRest, packaging, main, envFile>>

\* getMemoryConfig resolves with a result.
LoadMemoryToolConfigResolved(result) ==
    /\ memory.pc = "getMemoryConfig"
    /\ LET stored == loadedResult(memory, result)
       IN memory' = [stored EXCEPT
                       !.pc = "idle", !.promise = Fulfilled(None),
                       !.op = IF result.success /\ result.config # None
                              THEN "loadSucceeded" ELSE "loadFailed",
                       !.before = getMemoryToolConfig]
    /\ UNCHANGED <<platform, arch, isPackaged, envPATH, fs, gep, bep, ve, sdk, report,
                   envRest, packaging, main, envFile>>

\* clearMemoryGuidanceCache(): cachedConfig = null
ClearMemoryGuidanceCache ==
    /\ memory' = [memory EXCEPT !.cachedConfig = None, !.op = "clear",
                                !.before = getMemoryToolConfig]
    /\ UNCHANGED <<platform, arch, isPackaged, envPATH, fs, gep, bep, ve, sdk, report,
                   envRest, packaging, main, envFile>>

----------------------------------------------------------------------------
(* The main process: cleanup. *)

(* Each action is one event handler run to completion.  A teardown step      *)
(* other than the first, which has its own try/catch, may throw and end the  *)
(* handler there.                                                            *)

\* The steps of cleanup, in the order of the code.
TeardownSteps ==
    <<"closeMemvid", "unregisterAll", "stopPolling", "cleanupAllSessions", "killViteDevServer">>

\* The signals with a handler.
Signals == {"SIGTERM", "SIGINT", "SIGHUP"}

\* Where a run of cleanup can throw: nowhere (0), or at one of the steps
\* outside a try/catch.
ThrowPoints == {0, 2, 3, 4}

\* let cleanupComplete = false; no handler is registered before 'ready'
MainInit ==
    [ready |-> FALSE, cleanupComplete |-> FALSE,
     steps |-> [step \in {TeardownSteps[i] : i \in DOMAIN TeardownSteps} |-> 0],
     shortcut |-> FALSE, quits |-> 0, handled |-> 0, last |-> "none"]

\* The steps of one run: every step before the one that throws is done.
runTeardown(m, thrownAt) ==
    [m EXCEPT !.steps = [step \in DOMAIN @ |->
                           LET i == CHOOSE j \in DOMAIN TeardownSteps : TeardownSteps[j] = step
                           IN IF thrownAt = 0 \/ i < thrownAt THEN @[step] + 1 ELSE @[step]],
              !.shortcut = IF thrownAt = 0 \/ thrownAt > 2 THEN FALSE ELSE @]

\* Variant: the flag is never set.
main_cleanupUnmarked(m, thrownAt) ==
    IF m.cleanupComplete THEN m ELSE runTeardown(m, thrownAt)

\* function cleanup(): if (cleanupComplete) return; cleanupComplete = true; ...
main_cleanup(m, thrownAt) ==
    IF m.cleanupComplete THEN m
    ELSE runTeardown([m EXCEPT !.cleanupComplete = TRUE], thrownAt)

\* cleanup(); app.quit(): quit is reached unless cleanup threw
cleanupAndQuit(m, thrownAt) ==
    LET cleaned == main_cleanup(m, thrownAt)
        threw == ~m.cleanupComplete /\ thrownAt # 0
    IN [cleaned EXCEPT !.quits = IF threw THEN @ ELSE @ + 1]

\* app.on("ready"): the handlers and the quit shortcut are registered
AppReady ==
    /\ ~main.ready
    /\ main' = [main EXCEPT !.ready = TRUE, !.shortcut = TRUE]
    /\ UNCHANGED <<platform, arch, isPackaged, envPATH, fs, gep, bep, ve, sdk, report,
                   envRest, packaging, memory, envFile>>

\* app.on("before-quit") and app.on("will-quit"): cleanup()
QuitEvent(event, thrownAt) ==
    /\ main.ready
    /\ main.handled < MaxQuitEvents
    /\ event \in {"before-quit", "will-quit"}
    /\ main' = [main_cleanup(main, thrownAt) EXCEPT !.handled = @ + 1, !.last = event]
    /\ UNCHANGED <<platform, arch, isPackaged, envPATH, fs, gep, bep, ve, sdk, report,
                   envRest, packaging, memory, envFile>>

\* app.on("window-all-closed"): cleanup(); app.quit()
WindowAllClosed(thrownAt) ==
    /\ main.ready
    /\ main.handled < MaxQuitEvents
    /\ main' = [cleanupAndQuit(main, thrownAt) EXCEPT !.handled = @ + 1,
                                                      !.last = "window-all-closed"]
    /\ UNCHANGED <<platform, arch, isPackaged, envPATH, fs, gep, bep, ve, sdk, report,
                   envRest, packaging, memory, envFile>>

\* process.on(signal, handleSignal): cleanup(); app.quit()
HandleSignal(signal, thrownAt) ==
    /\ main.ready
    /\ main.handled < MaxQuitEvents
    /\ main' = [cleanupAndQuit(main, thrownAt) EXCEPT !.handled = @ + 1, !.last = signal]
    /\ UNCHANGED <<platform, arch, isPackaged, envPATH, fs, gep, bep, ve, sdk, report,
                   envRest, packaging, memory, envFile>>

\* globalShortcut CommandOrControl+Q, while it is registered: cleanup(); app.quit()
QuitShortcut(thrownAt) ==
    /\ main.ready
    /\ main.shortcut
    /\ main.handled < MaxQuitEvents
    /\ main' = [cleanupAndQuit(main, thrownAt) EXCEPT !.handled = @ + 1, !.last = "shortcut"]
    /\ UNCHANGED <<platform, arch, isPackaged, envPATH, fs, gep, bep, ve, sdk, report,
                   envRest, packaging, memory, envFile>>

----------------------------------------------------------------------------
(* env-file.ts *)

(* A string is the sequence of its characters; a key name and the text of a  *)
(* comment are one character each.  The file is its content, or None.        *)

\* The characters a value is made of: a letter, a blank, the two quotes, '='.
ValueChars == {"a", " ", "\"", "'", "="}

QuoteChars == {"\"", "'"}

\* The non-empty values of at most MaxValueLen characters.
EnvValues == SeqsUpTo(ValueChars, MaxValueLen) \ {<< >>}

\* The values the other fields are drawn from.
SampleValues == {<<"a">>, <<"a", " ">>, <<"'", "a">>}

\* The configurations handed to saveApiConfigToEnv.
ApiConfigs ==
    [apiKey : EnvValues, baseURL : SampleValues, model : SampleValues,
     apiType : {None} \cup {Some(value) : value \in SampleValues}]

EnvFileKeys ==
    <<"ANTHROPIC_AUTH_TOKEN", "ANTHROPIC_BASE_URL", "ANTHROPIC_MODEL", "ANTHROPIC_API_TYPE">>

EnvFileInit ==
    [file |-> None, config |-> None, saved |-> FALSE, threw |-> FALSE,
     load |-> [called |-> FALSE, result |-> None]]

\* The env variables saveApiConfigToEnv builds from a configuration: the key
\* to its value, << >> when the key is not set.
envVarsOf(config) ==
    [key \in {EnvFileKeys[i] : i \in DOMAIN EnvFileKeys} |->
        CASE key = "ANTHROPIC_AUTH_TOKEN" -> config.apiKey
          [] key = "ANTHROPIC_BASE_URL" -> config.baseURL
          [] key = "ANTHROPIC_MODEL" -> config.model
          [] OTHER -> IF config.apiType # None /\ truthy(config.apiType[1])
                      THEN config.apiType[1] ELSE << >>]

\* The lines writeEnvFile pushes for the keys from index i on.
RECURSIVE envLines(_, _)
envLines(envVars, i) ==
    IF i > Len(EnvFileKeys) THEN << >>
    ELSE LET key == EnvFileKeys[i]
         IN (IF truthy(envVars[key])
             THEN << <<"#", "comment">>, <<key, "=">> \o envVars[key], << >> >>
             ELSE << >>) \o envLines(envVars, i + 1)

\* The content writeEnvFile writes: the header and the lines, joined by '\n'.
envFileContent(envVars) ==
    joinWith(<< <<"#", "comment">>, <<"#", "comment">>, << >> >> \o envLines(envVars, 1), "\n")

\* value.trim().replace(/^['"]|['"]$/g, '')
cleanValue(value) ==
    LET trimmed == trim(value)
        headless == IF Len(trimmed) > 0 /\ trimmed[1] \in QuoteChars THEN Tail(trimmed) ELSE trimmed
    IN IF Len(headless) > 0 /\ headless[Len(headless)] \in QuoteChars
       THEN SubSeq(headless, 1, Len(headless) - 1) ELSE headless

\* One line of the file: trimmed; skipped when empty or a comment; matched
\* against /^([^=]+)=(.*)$/; the key trimmed, the value cleaned.
parseLine(line) ==
    LET trimmedLine == trim(line)
    IN IF ~truthy(trimmedLine) \/ startsWith(trimmedLine, "#") THEN None
       ELSE IF \A i \in DOMAIN trimmedLine : trimmedLine[i] # "=" THEN None
       ELSE LET k == CHOOSE i \in DOMAIN trimmedLine :
                        trimmedLine[i] = "=" /\ \A j \in 1..(i - 1) : trimmedLine[j] # "="
            IN IF k = 1 THEN None
               ELSE Some([key |-> trim(SubSeq(trimmedLine, 1, k - 1)),
                          value |-> cleanValue(SubSeq(trimmedLine, k + 1, Len(trimmedLine)))])

\* The value the lines from index i on give a key: that of its last line.
RECURSIVE lookupKey(_, _, _)
lookupKey(lines, key, i) ==
    IF i = 0 THEN << >>
    ELSE LET parsed == parseLine(lines[i])
         IN IF parsed # None /\ parsed[1].key = <<key>> THEN parsed[1].value
            ELSE lookupKey(lines, key, i - 1)

\* readEnvFile(): {} when the file is not there, else the variables parsed
readEnvFile ==
    LET lines == IF envFile.file = None THEN << >> ELSE split(envFile.file[1], "\n")
    IN [key \in {EnvFileKeys[i] : i \in DOMAIN EnvFileKeys} |-> lookupKey(lines, key, Len(lines))]

\* loadApiConfigFromEnv(): null when one of the three is missing or empty
loadApiConfigFromEnv ==
    LET envVars == readEnvFile
    IN IF ~truthy(envVars["ANTHROPIC_AUTH_TOKEN"]) \/ ~truthy(envVars["ANTHROPIC_BASE_URL"])
          \/ ~truthy(envVars["ANTHROPIC_MODEL"])
       THEN None
       ELSE Some([apiKey |-> envVars["ANTHROPIC_AUTH_TOKEN"],
                  baseURL |-> envVars["ANTHROPIC_BASE_URL"],
                  model |-> envVars["ANTHROPIC_MODEL"],
                  apiType |-> IF truthy(envVars["ANTHROPIC_API_TYPE"])
                              THEN envVars["ANTHROPIC_API_TYPE"] ELSE <<"anthropic">>])

\* saveApiConfigToEnv(config): the file is written, or writeFileSync throws and
\* the error is rethrown.
SaveApiConfigToEnv(written) ==
    /\ envFile.config # None
    /\ envFile' = IF written
                  THEN [envFile EXCEPT !.file = Some(envFileContent(envVarsOf(envFile.config[1]))),
                                       !.saved = TRUE, !.threw = FALSE,
                                       !.load = [called |-> FALSE, result |-> None]]
                  ELSE [envFile EXCEPT !.threw = TRUE]
    /\ UNCHANGED <<platform, arch, isPackaged, envPATH, fs, gep, bep, ve, sdk, report,
                   envRest, packaging, memory, main>>

LoadApiConfigFromEnv ==
    /\ envFile' = [envFile EXCEPT !.load = [called |-> TRUE, result |-> loadApiConfigFromEnv]]
    /\ UNCHANGED <<platform, arch, isPackaged, envPATH, fs, gep, bep, ve, sdk, report,
                   envRest, packaging, memory, main>>

----------------------------------------------------------------------------
(* The resolver's specification: any host, any sequence of calls, and a file *)
(* system that changes at any moment.                                        *)

Init ==
    /\ platform \in Platforms
    /\ arch \in Archs
    /\ isPackaged \in BOOLEAN
    /\ envPATH = Some(<<"/usr/bin">>)
    /\ fs = [path \in BundlePaths |-> Absent]
    /\ gep = GepIdle
    /\ bep = BepIdle
    /\ ve = VeIdle
    /\ sdk = SdkIdle
    /\ report = ReportIdle
    /\ envRest = EnvRestDefault
    /\ packaging = PackagingIdle
    /\ memory = MemoryInit
    /\ main = MainInit
    /\ envFile = EnvFileInit

Next ==
    \/ \E executable \in ExecutableNames : GetExecutablePathCall(executable)
    \/ GetExecutablePathStat
    \/ GetExecutablePathRead
    \/ \E path \in BundlePaths, file \in Files : FsWrite(path, file)
    \/ \E path \in BundlePaths : FsRemove(path)

Spec == Init /\ [][Next]_vars

----------------------------------------------------------------------------
(* The search-path builder's specification: any host, any inherited PATH of  *)
(* at most MaxPathLen tokens, any set of installed bundle files.             *)

\* The directories of the bundle files of this host.
BundleDirs ==
    {dirname(unpackedSegments(PACKAGED_DEPENDENCIES[i].paths[getSystemArchKey])) :
        i \in {j \in DOMAIN PACKAGED_DEPENDENCIES :
                 getSystemArchKey \in DOMAIN PACKAGED_DEPENDENCIES[j].paths}}

PathTokens == {"/usr/bin", " ", pathSeparator} \cup BundleDirs

InitPath ==
    /\ platform \in Platforms
    /\ arch \in Archs
    /\ isPackaged \in BOOLEAN
    /\ envPATH \in {None} \cup {Some(str) : str \in SeqsUpTo(PathTokens, MaxPathLen)}
    /\ fs \in [BundlePaths -> {Absent, GenuineBinary}]
    /\ gep = GepIdle
    /\ bep = BepIdle
    /\ ve = VeIdle
    /\ sdk = SdkIdle
    /\ report = ReportIdle
    /\ envRest = EnvRestDefault
    /\ packaging = PackagingIdle
    /\ memory = MemoryInit
    /\ main = MainInit
    /\ envFile = EnvFileInit

NextPath == BuildEnhancedPath

SpecPath == InitPath /\ [][NextPath]_vars

----------------------------------------------------------------------------
(* The resolver and the builder on every host, the architectures without a   *)
(* key included, over a bundle that stays as installed (a file missing, a    *)
(* real binary, the placeholder, readable or not).                           *)

\* The placeholder the packaging scripts put in place of a binary.
PlaceholderFiles ==
    {f \in Files : f.size < StubSizeThreshold /\ f.content = <<"#!/bin/bash", "echo">>}

InitHost ==
    /\ platform \in Platforms
    /\ arch \in Archs \cup OtherArchs
    /\ isPackaged \in BOOLEAN
    /\ envPATH = Some(<<"/usr/bin">>)
    /\ fs \in [BundlePaths -> {Absent, GenuineBinary} \cup PlaceholderFiles]
    /\ gep = GepIdle
    /\ bep = BepIdle
    /\ ve = VeIdle
    /\ sdk = SdkIdle
    /\ report = ReportIdle
    /\ envRest = EnvRestDefault
    /\ packaging = PackagingIdle
    /\ memory = MemoryInit
    /\ main = MainInit
    /\ envFile = EnvFileInit

NextHost ==
    \/ \E executable \in ExecutableNames : GetExecutablePathCall(executable)
    \/ GetExecutablePathStat
    \/ GetExecutablePathRead
    \/ BuildEnhancedPath

SpecHost == InitHost /\ [][NextHost]_vars

----------------------------------------------------------------------------
(* The callers' specifications: the bundle as installed, one call of each.   *)

InitSdk ==
    /\ platform \in Platforms
    /\ arch \in Archs
    /\ isPackaged \in BOOLEAN
    /\ envPATH \in {None, Some(<<"/usr/bin">>)}
    /\ fs \in [BundlePaths -> {Absent, GenuineBinary} \cup PlaceholderFiles]
    /\ gep = GepIdle
    /\ bep = BepIdle
    /\ ve = VeIdle
    /\ sdk = SdkIdle
    /\ report = ReportIdle
    /\ envRest \in InheritedEnvs
    /\ packaging = PackagingIdle
    /\ memory = MemoryInit
    /\ main = MainInit
    /\ envFile = EnvFileInit

NextSdk ==
    \/ GetSDKExecutableOptionsCall
    \/ GetSDKExecutableOptionsAfterNode
    \/ GetSDKExecutableOptionsAfterUv
    \/ GetExecutablePathStat
    \/ GetExecutablePathRead

SpecSdk == InitSdk /\ [][NextSdk]_vars

InitReport ==
    /\ platform \in {"linux", "freebsd"}
    /\ arch = "x64"
    /\ isPackaged \in BOOLEAN
    /\ envPATH = Some(<<"/usr/bin">>)
    /\ fs \in [BundlePaths -> {Absent, GenuineBinary} \cup PlaceholderFiles]
    /\ gep = GepIdle
    /\ bep = BepIdle
    /\ ve = VeIdle
    /\ sdk = SdkIdle
    /\ report = ReportIdle
    /\ envRest = EnvRestDefault
    /\ packaging = PackagingIdle
    /\ memory = MemoryInit
    /\ main = MainInit
    /\ envFile = EnvFileInit

NextReport ==
    \/ GetValidationReportCall
    \/ GetValidationReportAfterPath
    \/ GetValidationReportAfterProbe
    \/ GetExecutablePathStat
    \/ GetExecutablePathRead
    \/ \E status \in ExitStatuses : ChildExit(status)
    \/ ChildError
    \/ ChildClose
    \/ Timeout
    \/ Tick

SpecReport == InitReport /\ [][NextReport]_vars

----------------------------------------------------------------------------
(* The resolver, the builder and the liveness check called in any order on   *)
(* one host.                                                                 *)

InitProbe ==
    /\ platform = "darwin"
    /\ arch = "arm64"
    /\ isPackaged \in BOOLEAN
    /\ envPATH = Some(<<"/usr/bin">>)
    /\ fs \in [BundlePaths -> {Absent, GenuineBinary} \cup PlaceholderFiles]
    /\ gep = GepIdle
    /\ bep = BepIdle
    /\ ve = VeIdle
    /\ sdk = SdkIdle
    /\ report = ReportIdle
    /\ envRest = EnvRestDefault
    /\ packaging = PackagingIdle
    /\ memory = MemoryInit
    /\ main = MainInit
    /\ envFile = EnvFileInit

NextProbe ==
    \/ \E executable \in DependencyNames : GetExecutablePathCall(executable)
    \/ GetExecutablePathStat
    \/ GetExecutablePathRead
    \/ BuildEnhancedPath
    \/ \E executable \in DependencyNames : ValidateExecutableCall(executable)
    \/ \E status \in ExitStatuses : ChildExit(status)
    \/ ChildError
    \/ ChildClose
    \/ Timeout
    \/ Tick

SpecProbe == InitProbe /\ [][NextProbe]_vars

----------------------------------------------------------------------------
(* The resolver and the builder called again and again while bundle files    *)
(* are installed, replaced and removed.                                      *)

InitRepeat ==
    /\ platform \in {"linux", "win32"}
    /\ arch = "x64"
    /\ isPackaged \in BOOLEAN
    /\ envPATH \in {None, Some(<<"/usr/bin">>)}
    /\ fs = [path \in BundlePaths |-> Absent]
    /\ gep = GepIdle
    /\ bep = BepIdle
    /\ ve = VeIdle
    /\ sdk = SdkIdle
    /\ report = ReportIdle
    /\ envRest = EnvRestDefault
    /\ packaging = PackagingIdle
    /\ memory = MemoryInit
    /\ main = MainInit
    /\ envFile = EnvFileInit

NextRepeat ==
    \/ \E executable \in ExecutableNames : GetExecutablePathCall(executable)
    \/ GetExecutablePathStat
    \/ GetExecutablePathRead
    \/ BuildEnhancedPath
    \/ \E path \in BundlePaths, file \in {GenuineBinary} \cup PlaceholderFiles : FsWrite(path, file)
    \/ \E path \in BundlePaths : FsRemove(path)

SpecRepeat == InitRepeat /\ [][NextRepeat]_vars

----------------------------------------------------------------------------
(* packaging.js: its getSDKExecutableOptions called again and again while    *)
(* the bundle changes.                                                       *)

InitPackaging ==
    /\ platform \in Platforms
    /\ arch = "x64"
    /\ isPackaged \in BOOLEAN
    /\ envPATH = Some(<<"/usr/bin">>)
    /\ fs = [path \in packaging_BundlePaths |-> Absent]
    /\ gep = GepIdle
    /\ bep = BepIdle
    /\ ve = VeIdle
    /\ sdk = SdkIdle
    /\ report = ReportIdle
    /\ envRest = EnvRestDefault
    /\ packaging = PackagingIdle
    /\ memory = MemoryInit
    /\ main = MainInit
    /\ envFile = EnvFileInit

NextPackaging ==
    \/ PackagingGetSDKExecutableOptions
    \/ \E path \in packaging_BundlePaths, file \in {Absent, GenuineBinary} \cup PlaceholderFiles :
          PackagingFsWrite(path, file)

SpecPackaging == InitPackaging /\ [][NextPackaging]_vars

----------------------------------------------------------------------------
(* memory-manager.ts: its three functions called in any order.               *)

InitMemory ==
    /\ platform = "linux"
    /\ arch = "x64"
    /\ isPackaged \in BOOLEAN
    /\ envPATH = Some(<<"/usr/bin">>)
    /\ fs = [path \in BundlePaths |-> Absent]
    /\ gep = GepIdle
    /\ bep = BepIdle
    /\ ve = VeIdle
    /\ sdk = SdkIdle
    /\ report = ReportIdle
    /\ envRest = EnvRestDefault
    /\ packaging = PackagingIdle
    /\ memory = MemoryInit
    /\ main = MainInit
    /\ envFile = EnvFileInit

NextMemory ==
    \/ GetMemoryToolConfig
    \/ LoadMemoryToolConfigCall
    \/ \E imported \in BOOLEAN : LoadMemoryToolConfigImported(imported)
    \/ LoadMemoryToolConfigRejected
    \/ \E result \in MemoryConfigResults : LoadMemoryToolConfigResolved(result)
    \/ ClearMemoryGuidanceCache

SpecMemory == InitMemory /\ [][NextMemory]_vars

----------------------------------------------------------------------------
(* The main process: quit events, signals and the quit shortcut in any order. *)

InitMain ==
    /\ platform \in {"linux", "win32"}
    /\ arch = "x64"
    /\ isPackaged \in BOOLEAN
    /\ envPATH = Some(<<"/usr/bin">>)
    /\ fs = [path \in BundlePaths |-> Absent]
    /\ gep = GepIdle
    /\ bep = BepIdle
    /\ ve = VeIdle
    /\ sdk = SdkIdle
    /\ report = ReportIdle
    /\ envRest = EnvRestDefault
    /\ packaging = PackagingIdle
    /\ memory = MemoryInit
    /\ main = MainInit
    /\ envFile = EnvFileInit

NextMain ==
    \/ AppReady
    \/ \E event \in {"before-quit", "will-quit"}, thrownAt \in ThrowPoints :
          QuitEvent(event, thrownAt)
    \/ \E thrownAt \in ThrowPoints : WindowAllClosed(thrownAt)
    \/ \E signal \in Signals, thrownAt \in ThrowPoints : HandleSignal(signal, thrownAt)
    \/ \E thrownAt \in ThrowPoints : QuitShortcut(thrownAt)

SpecMain == InitMain /\ [][NextMain]_vars

----------------------------------------------------------------------------
(* env-file.ts: one configuration, saved and loaded in any order.            *)

InitEnvFile ==
    /\ platform = "linux"
    /\ arch = "x64"
    /\ isPackaged = TRUE
    /\ envPATH = Some(<<"/usr/bin">>)
    /\ fs = [path \in BundlePaths |-> Absent]
    /\ gep = GepIdle
    /\ bep = BepIdle
    /\ ve = VeIdle
    /\ sdk = SdkIdle
    /\ report = ReportIdle
    /\ envRest = EnvRestDefault
    /\ packaging = PackagingIdle
    /\ memory = MemoryInit
    /\ main = MainInit
    /\ envFile \in {[EnvFileInit EXCEPT !.config = Some(config)] : config \in ApiConfigs}

NextEnvFile ==
    \/ \E written \in BOOLEAN : SaveApiConfigToEnv(written)
    \/ LoadApiConfigFromEnv

SpecEnvFile == InitEnvFile /\ [][NextEnvFile]_vars

----------------------------------------------------------------------------
(* The liveness check's specification: any command, any fate of the child.   *)

InitValidate ==
    /\ platform \in {"darwin", "win32"}
    /\ arch = "x64"
    /\ isPackaged \in BOOLEAN
    /\ envPATH = Some(<<"/usr/bin">>)
    /\ fs = [path \in BundlePaths |-> Absent]
    /\ gep = GepIdle
    /\ bep = BepIdle
    /\ ve = VeIdle
    /\ sdk = SdkIdle
    /\ report = ReportIdle
    /\ envRest = EnvRestDefault
    /\ packaging = PackagingIdle
    /\ memory = MemoryInit
    /\ main = MainInit
    /\ envFile = EnvFileInit

NextValidate ==
    \/ \E executable \in ExecutableNames : ValidateExecutableCall(executable)
    \/ \E status \in ExitStatuses \cup {[code |-> None, signal |-> Some("SIGKILL")]} :
          ChildExit(status)
    \/ ChildError
    \/ ChildClose
    \/ Timeout
    \/ Tick

SpecValidate == InitValidate /\ [][NextValidate]_vars

\* Time passes and the event loop runs a timer that is due.
SpecValidateFair == SpecValidate /\ WF_vars(Tick) /\ WF_vars(Timeout)

----------------------------------------------------------------------------
(* Properties of getExecutablePath. *)

SupportedKeys == {"darwin-arm64", "darwin-x64", "linux-x64", "win32-x64"}

\* The stub of the test: '#!/bin/bash' followed by an echo line.
StubContent == <<"#!/bin/bash", "echo">>

\* join(resourcesPath, 'app.asar.unpacked', <declared relative path>), written
\* out from the table for the key of this host.
DeclaredBundlePath(name) ==
    LET i == CHOOSE j \in DOMAIN PACKAGED_DEPENDENCIES : PACKAGED_DEPENDENCIES[j].name = name
    IN resourcesPath \o dirSeparator \o "app.asar.unpacked" \o dirSeparator
         \o join(PACKAGED_DEPENDENCIES[i].paths[getSystemArchKey])

\* C1: in development mode a call for a declared dependency never waits, returns
\* exactly the name it was given and makes no file-system call, whatever files
\* exist.
C1_DevReturnsBareName ==
    (~isPackaged /\ gep.pc # "idle" /\ gep.executable \in DependencyNames) =>
        /\ gep.pc = "done"
        /\ gep.promise = Fulfilled(Some(gep.executable))
        /\ gep.fsCalls = << >>

C1_Witness ==
    /\ ~isPackaged
    /\ gep.pc = "done"
    /\ gep.executable = "uv"
    /\ \E path \in DOMAIN fs : fs[path].exists /\ fs[path].content = StubContent
    /\ \E path \in DOMAIN fs : ~fs[path].exists

\* C2: in packaged mode on a supported key, a call for a declared dependency
\* never rejects, and when it has returned its value is the declared bundle
\* path, the bare command name, or undefined.
C2_PackagedResultShape ==
    (isPackaged /\ gep.pc # "idle" /\ gep.executable \in DependencyNames
       /\ getSystemArchKey \in SupportedKeys) =>
        /\ gep.promise.state # "rejected"
        /\ gep.pc = "done" =>
             /\ gep.promise.state = "fulfilled"
             /\ gep.promise.value \in
                  {Some(DeclaredBundlePath(gep.executable)), Some(gep.executable), None}

C2_Witness ==
    /\ isPackaged
    /\ gep.pc = "done"
    /\ platform = "win32"
    /\ gep.executable = "uv"
    /\ gep.promise.value = Some(DeclaredBundlePath("uv"))

\* C3: in packaged mode, when the file was found, its size is below the
\* threshold and its content is the shell stub, the call returns the bare
\* command name with a warning, never the stub's path.
C3_StubFallsBack ==
    (gep.pc = "done" /\ gep.found = Some(TRUE) /\ gep.stats # None /\ gep.content # None) =>
        ((gep.stats[1] < StubSizeThreshold /\ gep.content[1] = StubContent) =>
            /\ isPackaged
            /\ gep.promise = Fulfilled(Some(gep.executable))
            /\ gep.promise.value # Some(gep.execPath)
            /\ gep.log = <<"warn">>)

C3_Witness ==
    /\ gep.pc = "done"
    /\ gep.executable = "uv"
    /\ gep.stats = Some(StubSizeThreshold - 1)
    /\ gep.content = Some(StubContent)

\* C4: in packaged mode, when the file was found and its size is at least the
\* threshold, the call returns the absolute bundle path and has not read the
\* file.
C4_LargeFileNoRead ==
    (gep.pc = "done" /\ gep.found = Some(TRUE) /\ gep.stats # None) =>
        (gep.stats[1] >= StubSizeThreshold =>
            /\ gep.promise = Fulfilled(Some(gep.execPath))
            /\ gep.execPath = DeclaredBundlePath(gep.executable)
            /\ gep.content = None
            /\ \A i \in DOMAIN gep.fsCalls : gep.fsCalls[i] # "readFile")

C4_Witness ==
    /\ gep.pc = "done"
    /\ gep.stats = Some(StubSizeThreshold)
    /\ fs[gep.execPath].exists
    /\ fs[gep.execPath].content = StubContent
    /\ fs[gep.execPath].size = StubSizeThreshold
    /\ gep.promise = Fulfilled(Some(gep.execPath))

\* C5: in packaged mode, when the mapping exists and existsSync found no file,
\* the call returns the bare name for node and undefined for every other
\* dependency, logs a warning and does not reject.
C5_MissingFile ==
    (gep.pc = "done" /\ gep.found = Some(FALSE)) =>
        /\ isPackaged
        /\ gep.promise.state = "fulfilled"
        /\ gep.promise.value = (IF gep.executable = "node" THEN Some("node") ELSE None)
        /\ \E i \in DOMAIN gep.log : gep.log[i] = "warn"

C5_Witness ==
    /\ gep.pc = "done"
    /\ gep.found = Some(FALSE)
    /\ gep.executable = "uv"
    /\ gep.promise = Fulfilled(None)

\* C6: in packaged mode, when the file passed the existence check and the stat
\* or the read that follows rejects, the call catches it, logs a warning and
\* returns the bare command name; the promise is never rejected.
C6_ValidationFailureFallsBack ==
    /\ gep.promise.state # "rejected"
    /\ gep.failed # None =>
         /\ gep.found = Some(TRUE)
         /\ gep.pc = "done"
         /\ gep.promise = Fulfilled(Some(gep.executable))
         /\ gep.log = <<"warn">>

C6_Witness ==
    /\ gep.failed = Some("readFile")
    /\ gep.pc = "done"
    /\ fs[gep.execPath].exists
    /\ ~fs[gep.execPath].readable

\* The other failure of C6: the file is removed between existsSync and stat.
C6_RaceReached == gep.failed = Some("stat") /\ gep.pc = "done"

\* C7 as stated: a name that is not declared resolves to undefined with an
\* error log, in packaged and in development mode.
C7_UnknownNameUnavailable ==
    (gep.pc = "done" /\ gep.executable \notin DependencyNames) =>
        /\ gep.promise = Fulfilled(None)
        /\ gep.log = <<"error">>

\* C7 amended: in packaged mode a name that is not declared resolves to
\* undefined with an error log and no file-system call; in development mode it
\* is returned as it was given, with no log.  The call never rejects.
C7_UnknownNamePackagedOnly ==
    (gep.pc # "idle" /\ gep.executable \notin DependencyNames) =>
        /\ gep.pc = "done"
        /\ gep.fsCalls = << >>
        /\ isPackaged => (gep.promise = Fulfilled(None) /\ gep.log = <<"error">>)
        /\ ~isPackaged => (gep.promise = Fulfilled(Some(gep.executable)) /\ gep.log = << >>)

C7_Witness ==
    /\ isPackaged
    /\ gep.pc = "done"
    /\ gep.executable = "bun"
    /\ gep.promise = Fulfilled(None)

----------------------------------------------------------------------------
(* Properties of buildEnhancedPath. *)

\* No directory is listed twice (an empty entry names no directory).
NoDuplicateEntries(entries) ==
    \A i, j \in DOMAIN entries : (i < j /\ entries[i] # << >>) => entries[i] # entries[j]

\* str.endsWith(suffix)
endsWith(str, suffix) ==
    /\ Len(suffix) <= Len(str)
    /\ SubSeq(str, Len(str) - Len(suffix) + 1, Len(str)) = suffix

\* C8 as stated, in the case it names: in a packaged build whose inherited
\* PATH lists no directory twice itself, the result of buildEnhancedPath, split
\* on the platform separator, lists no directory twice.
C8_NoDuplicateEntries ==
    (bep.called /\ isPackaged /\ NoDuplicateEntries(split(basePath, pathSeparator))) =>
        NoDuplicateEntries(split(bep.result, pathSeparator))

\* The second half of C8: the inherited PATH is the final part of the result,
\* unless it is blank or is, as a whole, one of the bundle directories.
C8_InheritedPathLast ==
    (bep.called /\ truthy(trim(basePath)) /\ \A d \in BundleDirs : basePath # <<d>>) =>
        endsWith(bep.result, basePath)

\* C9 as stated: in development mode the result is the inherited PATH
\* unchanged, and the empty string when PATH is unset.
C9_DevPathUnchanged ==
    (bep.called /\ ~isPackaged) =>
        /\ bep.result = (IF envPATH = None THEN << >> ELSE envPATH[1])
        /\ bep.fsCalls = << >>

\* C9 amended: in development mode the result is the inherited PATH unchanged
\* when it holds a character that is not a blank, and the empty string when
\* PATH is unset, empty or blank; no bundle lookup is made.
C9_DevPathUnchangedUnlessBlank ==
    (bep.called /\ ~isPackaged) =>
        /\ bep.fsCalls = << >>
        /\ bep.log = << >>
        /\ bep.result =
             (IF envPATH = None \/ \A i \in DOMAIN envPATH[1] : envPATH[1][i] \in Whitespace
              THEN << >> ELSE envPATH[1])

C9_Witness ==
    /\ bep.called
    /\ ~isPackaged
    /\ envPATH = Some(<<"/usr/bin", pathSeparator, "/usr/bin">>)
    /\ bep.result = <<"/usr/bin", pathSeparator, "/usr/bin">>
    /\ \E path \in DOMAIN fs : fs[path].exists

----------------------------------------------------------------------------
(* Properties of validateExecutable. *)

\* C10: the promise is never rejected; it is fulfilled with true exactly when
\* the child exited with status zero and the timeout had not fired; a non-zero
\* exit, an exit by signal, a spawn error and the timeout each fulfil it with
\* false.
C10_TrueIffExitZeroBeforeTimeout ==
    ve.pc # "idle" =>
        /\ ve.promise.state # "rejected"
        /\ ve.promise.state = "fulfilled" =>
             (ve.promise.value = Some(TRUE) <=>
                (/\ ve.child.state = "exited"
                 /\ ve.child.code = Some(0)
                 /\ ve.child.signal = None
                 /\ ve.timer # "fired"))
        /\ (\/ ve.child.state = "exited" /\ ve.child.code # Some(0)
            \/ ve.child.state = "failed"
            \/ ve.timer = "fired") => ve.promise = Fulfilled(Some(FALSE))
        /\ ve.child.state \in {"exited", "failed"} => ve.promise.state = "fulfilled"

C10_Witness ==
    /\ ve.promise = Fulfilled(Some(TRUE))
    /\ ve.child.state = "exited"
    /\ ve.child.closed
    /\ ve.clock > 0
    /\ ve.clock < TimeoutMs

\* The other cases of C10 happen too.
C10_FalseCasesReached ==
    \/ ve.promise = Fulfilled(Some(FALSE)) /\ ve.child.code = Some(127)
    \/ ve.promise = Fulfilled(Some(FALSE)) /\ ve.child.signal = Some("SIGTERM")
    \/ ve.promise = Fulfilled(Some(FALSE)) /\ ve.child.state = "failed"
    \/ ve.promise = Fulfilled(Some(FALSE)) /\ ve.timer = "fired" /\ ve.child.code = Some(0)

\* C11 as stated: when the timer fires on a child that is still running, the
\* promise is fulfilled with false at that instant, not before, and the
\* timeout path has sent the child a kill.
C11_TimeoutKillsChild ==
    ve.timer = "fired" =>
        /\ ve.promise = Fulfilled(Some(FALSE))
        /\ ve.settledAt = Some(TimeoutMs)
        /\ ve.kills >= 1
        /\ ve.child.killed \/ ve.child.state # "running"

\* The first half of C11 alone: fulfilled with false at the timeout instant.
C11_ResolvesAtTimeout ==
    ve.timer = "fired" =>
        (ve.promise = Fulfilled(Some(FALSE)) /\ ve.settledAt = Some(TimeoutMs))

\* The command of C12: the first event is 'error', or an 'exit' with a
\* non-zero status.
CommandNotFound ==
    /\ ve.events # << >>
    /\ \/ ve.events[1] = "error"
       \/ ve.events[1] = "exit" /\ ve.child.code # None /\ ve.child.code # Some(0)

\* C12: for a command that does not exist the promise is fulfilled with false,
\* no later than the timeout, and no child is running once it is; every call
\* is settled in the end, and none is pending after the timeout instant.
C12_NotFoundResolvesFalse ==
    /\ [](CommandNotFound =>
            /\ ve.promise = Fulfilled(Some(FALSE))
            /\ ve.settledAt # None
            /\ ve.settledAt[1] <= TimeoutMs
            /\ ve.child.state # "running")
    /\ [](ve.clock > TimeoutMs => ve.promise.state = "fulfilled")
    /\ (ve.pc = "waiting" ~> ve.promise.state = "fulfilled")

C12_Witness ==
    /\ ve.events = <<"error", "close">>
    /\ ve.promise = Fulfilled(Some(FALSE))
    /\ ve.child.state = "failed"
    /\ ve.settledAt = Some(0)

----------------------------------------------------------------------------
(* Properties of the key, the placeholder test and the order of the path.    *)

\* The key the documentation of the table gives for a host.
ExpectedArchKey ==
    CASE platform = "darwin" /\ arch = "arm64" -> "darwin-arm64"
      [] platform = "darwin" /\ arch # "arm64" -> "darwin-x64"
      [] platform = "linux" -> "linux-x64"
      [] platform = "win32" -> "win32-x64"
      [] OTHER -> platform \o "-" \o arch

\* C15: getSystemArchKey is darwin-arm64 on darwin/arm64, darwin-x64 on any
\* other darwin, linux-x64 on linux and win32-x64 on win32 whatever the
\* architecture, and '<platform>-<arch>' elsewhere; it is the key a packaged
\* resolution looks its path up with.
C15_ArchKeyMapping ==
    /\ getSystemArchKey = ExpectedArchKey
    /\ (isPackaged /\ gep.pc # "idle" /\ gep.executable \in DependencyNames) =>
          LET dep == findDependency(gep.executable)[1]
          IN IF ExpectedArchKey \in DOMAIN dep.paths
             THEN gep.execPath = join(unpackedSegments(dep.paths[ExpectedArchKey]))
             ELSE gep.promise = Fulfilled(None)

C15_Witness ==
    /\ platform = "linux" /\ arch = "arm64" /\ isPackaged
    /\ gep.pc = "done"
    /\ gep.promise =
         Fulfilled(Some("/App/resources/app.asar.unpacked/vendor/uv-linux-x64/uv-x86_64-unknown-linux-gnu/uv"))

\* A darwin host of an architecture other than arm64 and x64 uses darwin-x64.
C15_OtherDarwinReached ==
    /\ platform = "darwin" /\ arch \in OtherArchs /\ isPackaged
    /\ gep.pc = "done"
    /\ gep.promise =
         Fulfilled(Some("/App/resources/app.asar.unpacked/vendor/node-darwin-x64/node-v20.18.0-darwin-x64/bin/node"))

ConfiguredDependencies ==
    SelectSeq(PACKAGED_DEPENDENCIES, LAMBDA dep : getSystemArchKey \in DOMAIN dep.paths)

\* The bundle file of a dependency and the directory that holds it.
BundleFile(dep) == join(unpackedSegments(dep.paths[getSystemArchKey]))
BundleDir(dep) == dirname(unpackedSegments(dep.paths[getSystemArchKey]))

\* The dependencies whose bundle file is installed, and those whose is not.
Installed == SelectSeq(ConfiguredDependencies, LAMBDA dep : existsSync(BundleFile(dep)))
Missing == SelectSeq(ConfiguredDependencies, LAMBDA dep : ~existsSync(BundleFile(dep)))

\* The directories listed in a path string.
Entries(str) == split(str, pathSeparator)

\* C18: in a packaged build the directory of every dependency whose bundle
\* file exists is listed in the result ahead of the inherited PATH (the first
\* entries of the result are exactly those directories); the directory of a
\* dependency whose file is missing is not added and one warning is logged for
\* each; the function returns whatever is missing.
C18_InstalledDirsFirst ==
    (bep.called /\ isPackaged) =>
        LET entries == Entries(bep.result)
            k == Len(Installed)
            inheritedKept == truthy(trim(basePath))
                               /\ \A i \in 1..k : basePath # <<BundleDir(Installed[i])>>
        IN /\ \A i \in 1..k :
                \E j \in 1..k : j <= Len(entries) /\ entries[j] = <<BundleDir(Installed[i])>>
           /\ inheritedKept => bep.result = joinWith(SubSeq(entries, 1, k) \o <<basePath>>, pathSeparator)
           /\ ~inheritedKept => (IF k = 0 THEN bep.result = << >> ELSE Len(entries) = k)
           /\ Len(SelectSeq(bep.log, LAMBDA level : level = "warn")) = Len(Missing)
           /\ Len(bep.log) = Len(ConfiguredDependencies)

C18_Witness ==
    /\ bep.called /\ isPackaged /\ platform = "linux"
    /\ Len(Installed) = 1 /\ Installed[1].name = "node"
    /\ bep.log = <<"warn", "debug">>
    /\ bep.result = <<"/App/resources/app.asar.unpacked/vendor/node-linux-x64/node-v20.18.0-linux-x64/bin",
                      ":", "/usr/bin">>

\* C19 as stated: with the bundle files of several dependencies installed,
\* their directories are listed in declaration order, the first declared first.
C19_DeclarationOrder ==
    (bep.called /\ isPackaged /\ Len(Installed) >= 2) =>
        \A i \in 1..Len(Installed) :
            /\ i <= Len(Entries(bep.result))
            /\ Entries(bep.result)[i] = <<BundleDir(Installed[i])>>

\* C19 amended: each directory is put at the front in turn, so the directories
\* are listed in the reverse of declaration order (the last declared first),
\* followed by the inherited PATH.
C19_ReverseDeclarationOrder ==
    (bep.called /\ isPackaged /\ Len(Installed) >= 2) =>
        LET k == Len(Installed)
        IN /\ \A i \in 1..k :
                /\ i <= Len(Entries(bep.result))
                /\ Entries(bep.result)[i] = <<BundleDir(Installed[k + 1 - i])>>
           /\ (truthy(trim(basePath)) /\ \A i \in 1..k : basePath # <<BundleDir(Installed[i])>>) =>
                 bep.result = joinWith([i \in 1..k |-> <<BundleDir(Installed[k + 1 - i])>>]
                                          \o <<basePath>>, pathSeparator)

C19_Witness ==
    /\ bep.called /\ isPackaged /\ platform = "darwin" /\ arch = "arm64"
    /\ envPATH = Some(<<"/usr/bin">>)
    /\ bep.result =
         <<"/App/resources/app.asar.unpacked/vendor/node-darwin-arm64/node-v20.18.0-darwin-arm64/bin",
           ":", "/App/resources/app.asar.unpacked/vendor/uv-darwin-arm64/uv-aarch64-apple-darwin",
           ":", "/usr/bin">>

----------------------------------------------------------------------------
(* Properties of the callers and of the resolver's independence.             *)

\* What a call of getExecutablePath returns on the file system as it is.
RECURSIVE getExecutablePathSettled(_)
getExecutablePathSettled(call) ==
    IF call.pc = "stat" THEN getExecutablePathSettled(getExecutablePathAfterStat(call))
    ELSE IF call.pc = "read" THEN getExecutablePathSettled(getExecutablePathAfterRead(call))
    ELSE call

ResolutionOf(executable) == getExecutablePathSettled(getExecutablePathEntry(executable)).promise

\* C13: getSDKExecutableOptions never rejects, on any host and bundle; when the
\* resolver answers unavailable for the runtime the options have no
\* 'executable', and 'env' is there all the same, with the enhanced PATH.
C13_OptionsNeverFail ==
    /\ sdk.promise.state # "rejected"
    /\ sdk.pc = "done" =>
          /\ sdk.promise.state = "fulfilled"
          /\ LET options == sdk.promise.value[1]
             IN /\ options.env # None
                /\ options.env[1].PATH = Some(buildEnhancedPath.result)
                /\ (sdk.nodePath = None \/ ResolutionOf("node").value = None) =>
                      options.executable = None

C13_Witness ==
    /\ sdk.pc = "done"
    /\ isPackaged /\ platform = "freebsd"
    /\ sdk.nodePath = None
    /\ envPATH = Some(<<"/usr/bin">>)
    /\ sdk.promise = Fulfilled(Some([executable |-> None,
                                     env |-> Some(sdkEnv(<<"/usr/bin">>))]))

\* C14: the report carries the platform, the packaged flag and one entry for
\* each declared dependency and no other; an entry's path is what
\* getExecutablePath returns for the dependency, and its 'available' is the
\* answer validateExecutable gave for the bare name of the dependency.
C14_ReportSnapshot ==
    /\ report.promise.state # "rejected"
    /\ report.pc = "done" =>
          /\ report.promise.state = "fulfilled"
          /\ LET snapshot == report.promise.value[1]
             IN /\ snapshot.platform = platform
                /\ snapshot.isPackaged = isPackaged
                /\ DOMAIN snapshot.dependencies = DependencyNames
                /\ Len(report.probes) = Len(PACKAGED_DEPENDENCIES)
                /\ \A i \in DOMAIN PACKAGED_DEPENDENCIES :
                      LET name == PACKAGED_DEPENDENCIES[i].name
                      IN /\ snapshot.dependencies[name].path = ResolutionOf(name).value
                         /\ report.probes[i].command = name
                         /\ snapshot.dependencies[name].available = report.probes[i].passed

C14_Witness ==
    /\ report.pc = "done"
    /\ isPackaged /\ platform = "linux"
    /\ report.promise.value[1].dependencies["uv"] =
         [path |-> Some("/App/resources/app.asar.unpacked/vendor/uv-linux-x64/uv-x86_64-unknown-linux-gnu/uv"),
          available |-> FALSE]
    /\ report.promise.value[1].dependencies["node"] = [path |-> Some("node"), available |-> TRUE]

\* C17: in a packaged build on a platform other than darwin, linux and win32
\* the key is in no dependency's table; getExecutablePath for a declared
\* dependency returns undefined at once with one error logged,
\* buildEnhancedPath returns the inherited PATH with no directory added, and
\* neither throws.
C17_UnrecognizedPlatform ==
    (isPackaged /\ platform \notin {"darwin", "linux", "win32"}) =>
        /\ getSystemArchKey = platform \o "-" \o arch
        /\ \A i \in DOMAIN PACKAGED_DEPENDENCIES :
              getSystemArchKey \notin DOMAIN PACKAGED_DEPENDENCIES[i].paths
        /\ (gep.pc # "idle" /\ gep.executable \in DependencyNames) =>
              /\ gep.pc = "done"
              /\ gep.promise = Fulfilled(None)
              /\ gep.log = <<"error">>
              /\ gep.fsCalls = << >>
        /\ bep.called =>
              (bep.result = basePath /\ bep.log = << >> /\ bep.fsCalls = << >>)

C17_Witness ==
    /\ isPackaged /\ platform = "freebsd"
    /\ gep.pc = "done" /\ gep.executable = "node" /\ gep.promise = Fulfilled(None)
    /\ bep.called /\ bep.result = <<"/usr/bin">>

\* C20: no step of getExecutablePath or buildEnhancedPath starts a liveness
\* check or touches a child process, and what they return is decided by the
\* host and the bundle alone, whatever a liveness check of the same command
\* has answered or would answer.
C20_LivenessCheckAdvisory ==
    /\ [][(gep' # gep \/ bep' # bep) => ve' = ve]_vars
    /\ [](gep.pc = "done" => gep.promise = ResolutionOf(gep.executable))
    /\ [](bep.called => bep = buildEnhancedPath)

C20_Witness ==
    /\ isPackaged
    /\ gep.pc = "done" /\ gep.executable = "uv"
    /\ gep.promise = Fulfilled(Some(gep.execPath))
    /\ ve.executable = "uv" /\ ve.promise = Fulfilled(Some(FALSE))
    /\ bep.called

----------------------------------------------------------------------------
(* Statelessness. *)

\* What the documentation says a resolution gives, read off the host and the
\* bundle file as they are now.
ExpectedResolution(executable) ==
    IF ~isPackaged THEN Some(executable)
    ELSE IF executable \notin DependencyNames \/ ExpectedArchKey \notin SupportedKeys THEN None
    ELSE LET path == DeclaredBundlePath(executable)
             file == fs[path]
         IN IF ~file.exists THEN (IF executable = "node" THEN Some("node") ELSE None)
            ELSE IF file.size >= StubSizeThreshold THEN Some(path)
            ELSE IF ~file.readable THEN Some(executable)
            ELSE IF file.content[1] = "#!/bin/bash" \/ "echo" \in {file.content[i] : i \in DOMAIN file.content}
                 THEN Some(executable)
                 ELSE Some(path)

\* What the finished call saw of its file is how the file is now.
ObservedAsIs ==
    gep.found # None =>
        LET file == fs[gep.execPath]
        IN /\ gep.found[1] = file.exists
           /\ gep.failed # Some("stat")
           /\ gep.stats # None => gep.stats[1] = file.size
           /\ gep.failed = Some("readFile") => ~file.readable
           /\ gep.content # None => (file.readable /\ gep.content[1] = file.content)

\* The path the documentation says the builder gives, read off the host, the
\* inherited PATH (unset or without blanks here) and the bundle as they are now.
ExpectedEnhancedPath ==
    LET k == IF isPackaged THEN Len(Installed) ELSE 0
        dirs == [i \in 1..k |-> <<BundleDir(Installed[k + 1 - i])>>]
    IN joinWith(dirs \o (IF envPATH = None THEN << >> ELSE <<envPATH[1]>>), pathSeparator)

\* C21: a result of getExecutablePath or buildEnhancedPath is decided by the
\* argument, the mode, the host, the inherited PATH and the bundle files as
\* the call finds them, never by earlier calls: a finished resolution whose
\* file is as the call saw it is the resolution of the present state, and
\* every call of the builder returns the path of the present state, also right
\* after a file was installed, replaced or removed.
C21_Stateless ==
    /\ [](gep.pc = "done" /\ ObservedAsIs =>
            gep.promise = Fulfilled(ExpectedResolution(gep.executable)))
    /\ [][\A executable \in ExecutableNames :
            (gep' = getExecutablePathEntry(executable) /\ gep'.pc = "done") =>
                gep'.promise = Fulfilled(ExpectedResolution(executable))]_vars
    /\ [][bep' # bep => bep'.result = ExpectedEnhancedPath]_vars

\* The builder was called while uv's file was missing, the file was installed
\* afterwards and a resolution then returned its path.
C21_Witness ==
    /\ isPackaged /\ platform = "linux" /\ envPATH = Some(<<"/usr/bin">>)
    /\ bep.called /\ bep.result = <<"/usr/bin">>
    /\ gep.pc = "done" /\ gep.executable = "uv"
    /\ gep.promise = Fulfilled(Some(gep.execPath))
    /\ fs[gep.execPath] = GenuineBinary

\* C22: the env of the options is the inherited environment with PATH replaced
\* by the result of buildEnhancedPath and UV_PYTHON_PREFERENCE set to
\* 'only-system' exactly when getExecutablePath('uv') returns a value; every
\* other variable, and UV_PYTHON_PREFERENCE when uv is unavailable, is as
\* inherited.
C22_EnvIsInheritedPlusTwo ==
    sdk.pc = "done" =>
        LET env == sdk.promise.value[1].env[1]
        IN /\ DOMAIN env = EnvNames
           /\ env["PATH"] = Some(ExpectedEnhancedPath)
           /\ env["UV_PYTHON_PREFERENCE"] =
                 (IF ExpectedResolution("uv") # None THEN Some(<<"only-system">>)
                  ELSE envRest["UV_PYTHON_PREFERENCE"])
           /\ \A name \in EnvNames \ {"PATH", "UV_PYTHON_PREFERENCE"} : env[name] = envRest[name]

C22_Witness ==
    /\ sdk.pc = "done" /\ isPackaged /\ platform = "linux"
    /\ envRest["UV_PYTHON_PREFERENCE"] = Some(<<"only-managed">>)
    /\ envRest["HOME"] = Some(<<"/home/user">>)
    /\ sdk.options.env[1]["UV_PYTHON_PREFERENCE"] = Some(<<"only-system">>)
    /\ sdk.options.env[1]["HOME"] = Some(<<"/home/user">>)
    /\ sdk.options.executable = Some("node")

\* A host where uv is unavailable keeps the inherited preference.
C22_UnavailableReached ==
    /\ sdk.pc = "done" /\ isPackaged /\ ExpectedResolution("uv") = None
    /\ envRest["UV_PYTHON_PREFERENCE"] = Some(<<"only-managed">>)
    /\ sdk.options.env[1]["UV_PYTHON_PREFERENCE"] = Some(<<"only-managed">>)

----------------------------------------------------------------------------
(* Properties of the liveness check's callbacks. *)

\* The events of the child.
ChildEvents == {"close", "exit", "error"}

\* C25: whatever the order and number of the child's events and the timeout,
\* the promise of a call is settled once, by the first callback handled, and
\* is never rejected; no later callback changes its value or the instant it
\* was settled at; and the child is sent a kill at most once.
C25_SettledOnce ==
    /\ [](ve.promise.state # "rejected")
    /\ [](ve.events # << >> =>
            /\ ve.isResolved
            /\ ve.promise.state = "fulfilled"
            /\ ve.settledAt # None)
    /\ [](ve.kills <= 1)
    /\ [][(ve.promise.state = "fulfilled" /\ ve'.pc = "waiting" /\ ve'.events # << >>) =>
            (ve'.promise = ve.promise /\ ve'.settledAt = ve.settledAt /\ ve'.kills = ve.kills)]_vars

\* The timer fired first and the child then exited with status 0 and closed:
\* three callbacks handled, the promise still false.
C25_Witness ==
    /\ ve.events = <<"timeout", "exit", "close">>
    /\ ve.child.code = Some(0)
    /\ ve.promise = Fulfilled(Some(FALSE))
    /\ ve.settledAt = Some(TimeoutMs)

\* C30: once a 'close', 'exit' or 'error' of the child has been handled the
\* timer is no longer armed, the timer callback does not run after it, and no
\* kill is sent to a child that has exited or failed.
C30_TimerClearedAfterChildEvent ==
    /\ []((\E i \in DOMAIN ve.events : ve.events[i] \in ChildEvents) => ve.timer # "armed")
    /\ [](\A i, j \in DOMAIN ve.events :
            (i < j /\ ve.events[i] \in ChildEvents) => ve.events[j] # "timeout")
    /\ [][(ve.child.state \in {"exited", "failed"} /\ ve'.pc = "waiting" /\ ve'.events # << >>) =>
            ve'.kills = ve.kills]_vars

\* The child exited before the timer was due and time went on past the
\* timeout: the timer never fired.
C30_Witness ==
    /\ ve.events = <<"exit", "close">>
    /\ ve.timer = "cleared"
    /\ ve.clock > TimeoutMs
    /\ ve.kills = 0

----------------------------------------------------------------------------
(* Properties of packaging.js. *)

\* The bundle file of this variant for a dependency on a supported platform.
packaging_BundleFile(name) ==
    fs[join(unpackedSegments(packaging_findDependency(name)[1].paths[platform]))]

\* C23: the runtime chosen by packaging.js is bun whenever
\* getExecutablePath('bun') returns a value, else node when
\* getExecutablePath('node') returns a value, else none; the order of the
\* table (bun, uv, node) plays no part.
C23_BunThenNode ==
    [][packaging' # packaging =>
         packaging'.options.executable =
            (IF packaging_getExecutablePath("bun") # None THEN Some("bun")
             ELSE IF packaging_getExecutablePath("node") # None THEN Some("node")
             ELSE None)]_vars

\* bun resolves to its bundle path and is chosen although node is installed too.
C23_Witness ==
    /\ packaging.called /\ isPackaged /\ platform = "linux"
    /\ packaging_BundleFile("bun") = GenuineBinary
    /\ packaging_BundleFile("node") = GenuineBinary
    /\ packaging.options.executable = Some("bun")
    /\ packaging.options.env[1]["BUN_INSTALL"] =
         Some(<<"/App/resources/app.asar.unpacked/vendor/bun-linux-x64">>)

\* No runtime is chosen on a platform without bundle paths.
C23_UnsetReached ==
    packaging.called /\ isPackaged /\ platform = "freebsd" /\ packaging.options.executable = None

\* C24 as stated: in a packaged build on a supported platform with the bundled
\* bun missing and the bundled node installed, the executable chosen is node.
C24_FallsBackToNode ==
    (packaging.called /\ isPackaged /\ platform \in {"darwin", "linux", "win32"}
        /\ packaging.options = packaging_getSDKExecutableOptions
        /\ ~packaging_BundleFile("bun").exists
        /\ packaging_BundleFile("node") = GenuineBinary) =>
        packaging.options.executable = Some("node")

----------------------------------------------------------------------------
(* Properties of memory-manager.ts. *)

\* C26 as stated: getMemoryToolConfig returns the default while no load has
\* succeeded and the loaded configuration once one has; a load never rejects,
\* and one that fails leaves what getMemoryToolConfig returns as it was.
C26_DefaultUntilLoaded ==
    /\ memory.promise.state # "rejected"
    /\ memory.loaded = None => getMemoryToolConfig = DefaultMemoryConfig
    /\ memory.loaded # None => getMemoryToolConfig = memory.loaded[1]
    /\ memory.op = "loadFailed" => getMemoryToolConfig = memory.before

\* The part of C26 about loads alone: a load never rejects, a failed one
\* changes nothing and a successful one makes its configuration the one
\* returned.
C26_LoadAlone ==
    /\ memory.promise.state # "rejected"
    /\ memory.op = "loadFailed" => getMemoryToolConfig = memory.before
    /\ memory.op = "loadSucceeded" => getMemoryToolConfig = memory.loaded[1]

\* C27 as stated: clearMemoryGuidanceCache does nothing; getMemoryToolConfig
\* returns after the call what it returned before it.
C27_ClearIsNoOp ==
    memory.op = "clear" => getMemoryToolConfig = memory.before

----------------------------------------------------------------------------
(* Properties of the main process. *)

\* C28: whatever quit events, signals and shortcut presses arrive and in
\* whatever order, each teardown step of cleanup runs at most once in the
\* process, and an invocation of cleanup after the first changes nothing.
C28_CleanupOnce ==
    /\ [](\A step \in DOMAIN main.steps : main.steps[step] <= 1)
    /\ []((\E step \in DOMAIN main.steps : main.steps[step] > 0) => main.cleanupComplete)
    /\ [][main.cleanupComplete => (main'.steps = main.steps /\ main'.cleanupComplete)]_vars

\* Three events handled, each invoking cleanup: every step ran once.
C28_Witness ==
    /\ main.handled = 3
    /\ main.last = "will-quit"
    /\ main.quits = 1
    /\ \A step \in DOMAIN main.steps : main.steps[step] = 1

----------------------------------------------------------------------------
(* Properties of env-file.ts. *)

\* What a load after a save of this configuration is to return.
RoundTrip(config) ==
    Some([apiKey |-> config.apiKey, baseURL |-> config.baseURL, model |-> config.model,
          apiType |-> IF config.apiType = None THEN <<"anthropic">> ELSE config.apiType[1]])

\* C29 as stated: a load after a save returns the apiKey, baseURL, model and
\* apiType saved ('anthropic' when none was given), also for values that begin
\* or end with a quote or a blank.
C29_RoundTrip ==
    (envFile.saved /\ envFile.load.called) => envFile.load.result = RoundTrip(envFile.config[1])

\* A value is plain when it neither begins nor ends with a quote or a blank.
Plain(value) ==
    /\ value[1] \notin QuoteChars \cup Whitespace
    /\ value[Len(value)] \notin QuoteChars \cup Whitespace

\* The round trip for the apiKey alone, when it is plain.
C29_PlainKeyRoundTrip ==
    (envFile.saved /\ envFile.load.called /\ envFile.load.result # None
        /\ Plain(envFile.config[1].apiKey)) =>
        envFile.load.result[1].apiKey = envFile.config[1].apiKey

====
